---- MODULE Spec2Model ----
(***************************************************************************)
(* Model of the health-monitoring core (app/services/model_monitor.py), of  *)
(* the cluster connection manager and task manager                         *)
(* (app/services/ray_service.py) and of the engine service's start         *)
(* (app/services/vllm_engine.py, app/api/routes.py).                       *)
(*                                                                         *)
(* Units.  Latencies are whole seconds.  A ratio (error rate, average,     *)
(* throughput) is a record [num, den] compared by cross-multiplication,    *)
(* so that no rounding is introduced by the model.  Percent thresholds on  *)
(* the error rate are kept in hundredths (0.05 is 5, 0.15 is 15).          *)
(*                                                                         *)
(* Scheduling.  The monitor runs on one cooperative asyncio event loop:    *)
(* every action below is the code between two suspension points (await),   *)
(* which runs atomically.  ray_service is synchronous code; its steps are  *)
(* the coordinator calls it makes.                                         *)
(***************************************************************************)
EXTENDS Integers, Sequences, FiniteSets, TLC

VARIABLES
    \* ModelHealthChecker
    response_times,      \* List[float]: the rolling latency window
    request_count,       \* lifetime counter
    error_count,         \* lifetime counter
    health_history,      \* List[ModelHealthMetrics]
    last_health_check,   \* time of the last successful evaluation
    \* ModelMonitorService
    monitoring_active,   \* bool
    monitoring_task,     \* the asyncio task of the last start, or NoTask
    start_log,           \* what the last start_monitoring call logged
    \* the event loop
    tasks,               \* every _monitoring_loop task ever spawned
    stops,               \* stop_monitoring calls (coroutines) in flight
    manual,              \* run_health_check calls (coroutines) in flight
    reader,              \* what the last get_current_status() returned
    now,                 \* the last reading of time.time()
    evals,               \* perform_health_check invocations so far
    \* RayClusterService and the coordinator (ray)
    _connected,
    _cluster_info,
    _connection_time,
    _connection_attempts,
    ray_initialized,     \* what ray.is_initialized() answers
    call,                \* the service calls of each caller thread
    \* RayTaskManager and the coordinator's tasks
    task_counter,
    active_tasks,        \* dict: task id -> task ref, in insertion order
    ray_tasks,           \* the state of every task ref the coordinator issued
    submits,             \* the submit_task calls of each thread
    returned,            \* the task ids submit_task has returned, in order
    tasks_reader,        \* what the last task-manager query returned
    \* VLLMService
    _initialized,
    engine_actor         \* the actor handle, and whether its connection lives

monVars == <<response_times, request_count, error_count, health_history,
             last_health_check, monitoring_active, monitoring_task, start_log,
             tasks, stops, manual, reader, now, evals>>
rayVars == <<_connected, _cluster_info, _connection_time,
             _connection_attempts, ray_initialized, call>>
mgrVars == <<task_counter, active_tasks, ray_tasks, submits, returned,
             tasks_reader>>
vllmVars == <<_initialized, engine_actor>>
vars == <<monVars, rayVars, mgrVars, vllmVars>>

----------------------------------------------------------------------------
(* Bounds of the model *)

MaxTasks == 2          \* loop tasks spawned in one run
NumStoppers == 1       \* concurrent stop_monitoring calls
MaxEvals == 2          \* health evaluations (ticks and manual) in one run
MaxMonRequests == 1    \* requests recorded while the monitor is observed
MaxWinRequests == 103  \* requests recorded in the window specification
EvalRequests == 20     \* requests behind a window that an evaluation reads
MaxSubmits == 2        \* tasks submitted to the coordinator in one run

----------------------------------------------------------------------------
(* Values *)

\* Python's None for an Optional[float] reading (readings are >= 0)
None == 0 - 1
\* monitoring_task = None
NoTask == 0
\* the window keeps the last 100 latencies
WindowSize == 100
\* self.max_history_size
max_history_size == 100

thresholds ==
    [ response_time_warning  |-> 5,
      response_time_critical |-> 10,
      error_rate_warning     |-> 5,     \* 0.05, in hundredths
      error_rate_critical    |-> 15,    \* 0.15, in hundredths
      memory_warning         |-> 80,
      memory_critical        |-> 95,
      gpu_memory_warning     |-> 90,
      gpu_memory_critical    |-> 98,
      gpu_temp_warning       |-> 80,
      gpu_temp_critical      |-> 90 ]

Ratio(n, d) == [num |-> n, den |-> d]
\* (variant) a ratio is never above a limit
RatioNeverAbove(r, pct) == FALSE
\* r > pct/100
RatioAbovePct(r, pct) == r.num * 100 > pct * r.den

Max(a, b) == IF a >= b THEN a ELSE b

RECURSIVE SumSeq(_)
SumSeq(s) == IF s = <<>> THEN 0 ELSE Head(s) + SumSeq(Tail(s))

----------------------------------------------------------------------------
(* ModelHealthChecker: the metrics window *)

\* (variant) the window without eviction
WindowNeverEvicts(window, response_time) == Append(window, response_time)

\* (variant) a full window refuses the new latency
WindowDropsNewest(window, response_time) ==
    IF Len(window) >= WindowSize THEN window ELSE Append(window, response_time)

\* response_times after record_request_metrics(response_time, ...)
WindowAfterRecord(window, response_time) ==
    LET appended == Append(window, response_time)
    IN  IF Len(appended) > WindowSize THEN Tail(appended) ELSE appended

record_request_metrics(response_time, success) ==
    /\ response_times' = WindowAfterRecord(response_times, response_time)
    /\ request_count' = request_count + 1
    /\ error_count' = IF success THEN error_count ELSE error_count + 1

\* (variant) the element below the one the code picks
PercentileIndexBelow(length, pct) == Max(((length * pct) \div 100) - 1, 0)

\* int(length * q) for q = pct/100
PercentileIndex(length, pct) == (length * pct) \div 100

calculate_response_time_percentiles(window) ==
    IF window = <<>>
    THEN [avg |-> Ratio(0, 1), p50 |-> 0, p95 |-> 0, p99 |-> 0]
    ELSE LET sorted_times == SortSeq(window, LAMBDA a, b : a < b)
             length == Len(sorted_times)
         IN  [ avg |-> Ratio(SumSeq(sorted_times), length),
               \* Python indexes from 0
               p50 |-> sorted_times[PercentileIndex(length, 50) + 1],
               p95 |-> sorted_times[PercentileIndex(length, 95) + 1],
               p99 |-> sorted_times[PercentileIndex(length, 99) + 1] ]

\* error_count / max(request_count, 1)
ErrorRate(ec, rc) == Ratio(ec, Max(rc, 1))

----------------------------------------------------------------------------
(* ModelHealthChecker: classification and alerts *)

\* A value on which a comparison with a number raises (None, a string) where
\* a number is expected
NotANumber == 0 - 2
\* the same for the error rate
NotARatio == [num |-> 0, den |-> 0]

\* "x and x > limit" on an Optional reading: None and 0 are falsy
ReadingAbove(x, limit) == x # None /\ x # 0 /\ x > limit

\* The operands of the two "or" chains of determine_model_status, in the order
\* Python evaluates them: whether the operand raises, and whether it is above
\* its critical limit
ChainRaises(metrics) ==
    << metrics.response_time_p95 \in {None, NotANumber},
       metrics.error_rate = NotARatio,
       metrics.gpu_memory_usage_percent = NotANumber,
       metrics.temperature = NotANumber >>
ChainCritical(metrics) ==
    << metrics.response_time_p95 > thresholds.response_time_critical,
       RatioAbovePct(metrics.error_rate, thresholds.error_rate_critical),
       ReadingAbove(metrics.gpu_memory_usage_percent, thresholds.gpu_memory_critical),
       ReadingAbove(metrics.temperature, thresholds.gpu_temp_critical) >>

\* An operand raises before the critical chain has met a true operand (a
\* chain that is false evaluates every operand)
ClassifyRaises(metrics) ==
    \E i \in 1..4 :
        /\ ChainRaises(metrics)[i]
        /\ \A j \in 1..(i - 1) :
              ChainRaises(metrics)[j] \/ ~ChainCritical(metrics)[j]

\* (variant) the warning limits looked at first
ClassifyWarningFirst(metrics) ==
    IF \/ metrics.response_time_p95 > thresholds.response_time_warning
       \/ RatioAbovePct(metrics.error_rate, thresholds.error_rate_warning)
       \/ ReadingAbove(metrics.gpu_memory_usage_percent, thresholds.gpu_memory_warning)
       \/ ReadingAbove(metrics.temperature, thresholds.gpu_temp_warning)
    THEN "degraded"
    ELSE "healthy"

determine_model_status(metrics) ==
    IF ClassifyRaises(metrics)
    THEN "unknown"       \* except Exception: return ModelStatus.UNKNOWN
    ELSE IF \/ metrics.response_time_p95 > thresholds.response_time_critical
            \/ RatioAbovePct(metrics.error_rate, thresholds.error_rate_critical)
            \/ ReadingAbove(metrics.gpu_memory_usage_percent, thresholds.gpu_memory_critical)
            \/ ReadingAbove(metrics.temperature, thresholds.gpu_temp_critical)
    THEN "unhealthy"
    ELSE IF \/ metrics.response_time_p95 > thresholds.response_time_warning
            \/ RatioAbovePct(metrics.error_rate, thresholds.error_rate_warning)
            \/ ReadingAbove(metrics.gpu_memory_usage_percent, thresholds.gpu_memory_warning)
            \/ ReadingAbove(metrics.temperature, thresholds.gpu_temp_warning)
         THEN "degraded"
         ELSE "healthy"

\* (variant) every alert is a warning
AlertAlwaysWarning(type, critical, warn_limit, crit_limit) ==
    [type |-> type, severity |-> "warning", threshold |-> warn_limit]

Alert(type, critical, warn_limit, crit_limit) ==
    [ type |-> type,
      severity |-> IF critical THEN "critical" ELSE "warning",
      threshold |-> IF critical THEN crit_limit ELSE warn_limit ]

\* (variant) only the latency is alerted on
AlertsLatencyOnly(metrics) ==
    IF metrics.response_time_p95 > thresholds.response_time_warning
    THEN << Alert("response_time",
                  metrics.response_time_p95 > thresholds.response_time_critical,
                  thresholds.response_time_warning,
                  thresholds.response_time_critical) >>
    ELSE <<>>

_generate_alerts(metrics) ==
    LET rt == IF metrics.response_time_p95 > thresholds.response_time_warning
              THEN << Alert("response_time",
                            metrics.response_time_p95 > thresholds.response_time_critical,
                            thresholds.response_time_warning,
                            thresholds.response_time_critical) >>
              ELSE <<>>
        er == IF RatioAbovePct(metrics.error_rate, thresholds.error_rate_warning)
              THEN << Alert("error_rate",
                            RatioAbovePct(metrics.error_rate, thresholds.error_rate_critical),
                            thresholds.error_rate_warning,
                            thresholds.error_rate_critical) >>
              ELSE <<>>
        gm == IF ReadingAbove(metrics.gpu_memory_usage_percent, thresholds.gpu_memory_warning)
              THEN << Alert("gpu_memory",
                            metrics.gpu_memory_usage_percent > thresholds.gpu_memory_critical,
                            thresholds.gpu_memory_warning,
                            thresholds.gpu_memory_critical) >>
              ELSE <<>>
        gt == IF ReadingAbove(metrics.temperature, thresholds.gpu_temp_warning)
              THEN << Alert("gpu_temperature",
                            metrics.temperature > thresholds.gpu_temp_critical,
                            thresholds.gpu_temp_warning,
                            thresholds.gpu_temp_critical) >>
              ELSE <<>>
    IN  rt \o er \o gm \o gt

----------------------------------------------------------------------------
(* ModelHealthChecker: perform_health_check *)

\* What psutil / torch / pynvml report at one evaluation
Readings ==
    { [memory |-> 65, gpu_memory_percent |-> None, gpu_temperature |-> None] }

\* What vllm_service.get_stats() reports when the engine answers
EngineStats ==
    { [active_requests |-> 1, total_tokens_generated |-> 20] }

\* Latencies recorded while the monitor is observed
MonLatencies == {12}

Statuses == {"healthy", "degraded", "unhealthy", "loading", "error", "unknown"}

\* The locals of perform_health_check that are computed before it awaits the
\* engine: system_metrics, response_stats, error_rate, gpu_metrics
CheckFrame(window, ec, rc, rd) ==
    [ response_stats |-> calculate_response_time_percentiles(window),
      error_rate |-> ErrorRate(ec, rc),
      memory_usage_percent |-> rd.memory,
      gpu_memory_percent |-> rd.gpu_memory_percent,
      gpu_temperature |-> rd.gpu_temperature ]

NoFrame == CheckFrame(<<>>, 0, 0, [memory |-> 0, gpu_memory_percent |-> None,
                                   gpu_temperature |-> None])

\* throughput = total_tokens / max(sum(response_times), 1), read after the await
Throughput(window, stats) ==
    IF window # <<>>
    THEN Ratio(stats.total_tokens_generated, Max(SumSeq(window), 1))
    ELSE Ratio(0, 1)

\* The ModelHealthMetrics built on the success path, all fields at once
ModelHealthMetrics(fr, window, stats, time) ==
    LET metrics == [ response_time_p95 |-> fr.response_stats.p95,
                     error_rate |-> fr.error_rate,
                     gpu_memory_usage_percent |-> fr.gpu_memory_percent,
                     temperature |-> fr.gpu_temperature ]
    IN  [ status |-> determine_model_status(metrics),
          last_check_time |-> time,
          response_time_avg |-> fr.response_stats.avg,
          response_time_p95 |-> fr.response_stats.p95,
          error_rate |-> fr.error_rate,
          memory_usage_percent |-> fr.memory_usage_percent,
          gpu_memory_usage_percent |-> fr.gpu_memory_percent,
          temperature |-> fr.gpu_temperature,
          throughput_tokens_per_second |-> Throughput(window, stats),
          queue_length |-> 0,
          active_requests |-> stats.active_requests ]

\* The ModelHealthMetrics returned by the except branch
ErrorMetrics(time) ==
    [ status |-> "error",
      last_check_time |-> time,
      response_time_avg |-> Ratio(0, 1),
      response_time_p95 |-> 0,
      error_rate |-> Ratio(1, 1),
      memory_usage_percent |-> 0,
      gpu_memory_usage_percent |-> None,
      temperature |-> None,
      throughput_tokens_per_second |-> Ratio(0, 1),
      queue_length |-> 0,
      active_requests |-> 0 ]

\* (variant) the newest snapshot is put in front
HistoryNewestFirst(history, health_metrics) ==
    LET inserted == <<health_metrics>> \o history
    IN  IF Len(inserted) > max_history_size
        THEN SubSeq(inserted, 1, max_history_size) ELSE inserted

\* (variant) a history that is never trimmed
AppendUnbounded(history, health_metrics) == Append(history, health_metrics)

\* health_history.append(health_metrics), then pop(0) over max_history_size
AppendHistory(history, health_metrics) ==
    LET appended == Append(history, health_metrics)
    IN  IF Len(appended) > max_history_size THEN Tail(appended) ELSE appended

\* (variant) the latest snapshot overwritten in place instead of a new one
\* being appended
HistoryUpdatedInPlace(history, health_metrics) ==
    IF history = <<>>
    THEN <<health_metrics>>
    ELSE [history EXCEPT ![Len(history)] = health_metrics]

\* health_history after the success path of perform_health_check
HistoryAfterCheck(history, health_metrics) ==
    AppendHistory(history, health_metrics)

\* health_history after the except branch of perform_health_check, which
\* returns ErrorMetrics and stores nothing
HistoryAfterFailedCheck(history, error_metrics) == history

\* perform_health_check from the engine's answer to its return (success path)
CheckSucceeds(fr, stats) ==
    LET health_metrics == ModelHealthMetrics(fr, response_times, stats, now + 1)
    IN  /\ health_history' = HistoryAfterCheck(health_history, health_metrics)
        /\ last_health_check' = now + 1
        /\ now' = now + 1

\* the same when the engine call raises, or get_stats() answers None and
\* vllm_stats.get raises: the except branch
CheckFails ==
    /\ health_history' = HistoryAfterFailedCheck(health_history, ErrorMetrics(now + 1))
    /\ now' = now + 1
    /\ UNCHANGED last_health_check

\* recent_status_distribution: status -> count over the last 10 snapshots
StatusCounts(history) ==
    LET n == Len(history)
        recent == SubSeq(history, Max(1, n - 9), n)
        present == {recent[i].status : i \in 1..Len(recent)}
    IN  [st \in present |-> Cardinality({i \in 1..Len(recent) : recent[i].status = st})]

get_health_summary(history) ==
    IF history = <<>>
    THEN [status |-> "unknown", last_check |-> None, checks_performed |-> 0]
    ELSE LET latest == history[Len(history)]
         IN  [ current_status |-> latest.status,
               last_check |-> latest.last_check_time,
               checks_performed |-> Len(history),
               response_time_avg |-> latest.response_time_avg,
               response_time_p95 |-> latest.response_time_p95,
               error_rate |-> latest.error_rate,
               gpu_memory_usage |-> latest.gpu_memory_usage_percent,
               gpu_temperature |-> latest.temperature,
               throughput |-> latest.throughput_tokens_per_second,
               active_requests |-> latest.active_requests,
               recent_status_distribution |-> StatusCounts(history),
               alerts |-> _generate_alerts(latest) ]

\* The status a caller reads off a summary
ReportedStatus(summary) ==
    IF "current_status" \in DOMAIN summary
    THEN summary.current_status
    ELSE summary.status

----------------------------------------------------------------------------
(* ModelMonitorService and the event loop *)

TaskIds == 1..MaxTasks
Stoppers == 1..NumStoppers
Callers == {1}          \* run_health_check callers

\* A _monitoring_loop task.  pc is where its coroutine is suspended:
\*   unborn    not created yet
\*   created   asyncio.create_task was called, the coroutine has not run
\*   probing   inside perform_health_check, at await vllm_service.health_check()
\*   sleeping  at await asyncio.sleep(interval)
\*   done      the coroutine has ended
\* must_cancel: Task.cancel() was called and CancelledError is not yet thrown
\* raised: its last perform_health_check went through the except branch
NewTask == [pc |-> "unborn", must_cancel |-> FALSE, frame |-> NoFrame, raised |-> FALSE]

\* The tasks that are spawned and have not terminated
Alive == {t \in TaskIds : tasks[t].pc \in {"created", "probing", "sleeping"}}
Spawned == {t \in TaskIds : tasks[t].pc # "unborn"}

\* (variant) a loop that ends when a tick's probe failed
LoopStopsOnError(outcome) == IF outcome = "error" THEN "done" ELSE "sleeping"

\* where the loop goes after perform_health_check returned: every outcome,
\* the ERROR snapshot of a failed probe included, leads to asyncio.sleep
LoopPcAfterCheck(outcome) == "sleeping"

\* (variant) start_monitoring without its guard
NeverActive == FALSE

\* "if self.monitoring_active": start_monitoring only warns and returns
AlreadyActive == monitoring_active

\* start_monitoring
start_monitoring ==
    /\ Cardinality(Spawned) < MaxTasks
    /\ IF AlreadyActive
       THEN /\ start_log' = "warning"
            /\ UNCHANGED <<monitoring_active, monitoring_task, tasks>>
       ELSE LET t == Cardinality(Spawned) + 1
            IN  /\ monitoring_active' = TRUE
                /\ monitoring_task' = t
                /\ tasks' = [tasks EXCEPT ![t].pc = "created"]
                /\ start_log' = "info"
    /\ UNCHANGED <<response_times, request_count, error_count, health_history,
                   last_health_check, stops, manual, reader, now, evals>>
    /\ UNCHANGED <<rayVars, mgrVars, vllmVars>>

\* Task.cancel(): nothing on a task that is done
Cancel(tk, t) ==
    IF tk[t].pc = "done" THEN tk ELSE [tk EXCEPT ![t].must_cancel = TRUE]

\* stop_monitoring up to "await self.monitoring_task"; awaiting a task that is
\* done does not suspend, whether it ended normally or by CancelledError
stop_monitoring(s) ==
    /\ stops[s].pc = "idle"
    /\ monitoring_active' = FALSE
    /\ IF monitoring_task = NoTask
       THEN /\ stops' = [stops EXCEPT ![s].pc = "returned"]
            /\ UNCHANGED tasks
       ELSE /\ tasks' = Cancel(tasks, monitoring_task)
            /\ stops' = [stops EXCEPT ![s] =
                    [pc |-> IF tasks[monitoring_task].pc = "done"
                            THEN "returned" ELSE "awaiting",
                     task |-> monitoring_task]]
    /\ UNCHANGED <<response_times, request_count, error_count, health_history,
                   last_health_check, monitoring_task, start_log, manual, reader, now, evals>>
    /\ UNCHANGED <<rayVars, mgrVars, vllmVars>>

\* stop_monitoring resumes when the awaited task is done, and returns
StopResume(s) ==
    /\ stops[s].pc = "awaiting"
    /\ tasks[stops[s].task].pc = "done"
    /\ stops' = [stops EXCEPT ![s].pc = "returned"]
    /\ UNCHANGED <<response_times, request_count, error_count, health_history,
                   last_health_check, monitoring_active, monitoring_task, start_log, tasks,
                   manual, reader, now, evals>>
    /\ UNCHANGED <<rayVars, mgrVars, vllmVars>>

\* A step of the loop task t is due: it is suspended and not cancelled
Runnable(t) == tasks[t].pc \in {"created", "sleeping"} /\ ~tasks[t].must_cancel

\* The loop condition "while self.monitoring_active" as task t evaluates it
\* when it runs: false ends the coroutine
LoopEnds(t) == ~monitoring_active

\* A tick begins: perform_health_check runs up to the await of the engine
TickBegin(t, rd) ==
    /\ Runnable(t)
    /\ IF LoopEnds(t)
       THEN /\ tasks' = [tasks EXCEPT ![t].pc = "done"]
            /\ UNCHANGED evals
       ELSE /\ evals < MaxEvals
            /\ evals' = evals + 1
            /\ tasks' = [tasks EXCEPT ![t].pc = "probing",
                                      ![t].frame = CheckFrame(response_times, error_count,
                                                              request_count, rd)]
    /\ UNCHANGED <<response_times, request_count, error_count, health_history,
                   last_health_check, monitoring_active, monitoring_task, start_log,
                   stops, manual, reader, now>>
    /\ UNCHANGED <<rayVars, mgrVars, vllmVars>>

\* A tick on an engine that is not initialized: health_check() answers without
\* suspending, get_stats() answers None, vllm_stats.get raises; the tick runs
\* through the except branch to asyncio.sleep in one step
TickUnavailable(t) ==
    /\ Runnable(t)
    /\ ~LoopEnds(t)
    /\ evals < MaxEvals
    /\ evals' = evals + 1
    /\ CheckFails
    /\ tasks' = [tasks EXCEPT ![t].pc = LoopPcAfterCheck("error"),
                              ![t].raised = TRUE]
    /\ UNCHANGED <<response_times, request_count, error_count,
                   monitoring_active, monitoring_task, start_log,
                   stops, manual, reader>>
    /\ UNCHANGED <<rayVars, mgrVars, vllmVars>>

\* The engine answers the probe of tick t
ProbeReturns(t, stats) ==
    /\ tasks[t].pc = "probing"
    /\ ~tasks[t].must_cancel
    /\ CheckSucceeds(tasks[t].frame, stats)
    /\ tasks' = [tasks EXCEPT ![t].pc = LoopPcAfterCheck("ok"),
                              ![t].frame = NoFrame,
                              ![t].raised = FALSE]
    /\ UNCHANGED <<response_times, request_count, error_count,
                   monitoring_active, monitoring_task, start_log,
                   stops, manual, reader, evals>>
    /\ UNCHANGED <<rayVars, mgrVars, vllmVars>>

\* The probe of tick t raises (the engine call, or the read of its stats)
ProbeRaises(t) ==
    /\ tasks[t].pc = "probing"
    /\ ~tasks[t].must_cancel
    /\ CheckFails
    /\ tasks' = [tasks EXCEPT ![t].pc = LoopPcAfterCheck("error"),
                              ![t].frame = NoFrame,
                              ![t].raised = TRUE]
    /\ UNCHANGED <<response_times, request_count, error_count,
                   monitoring_active, monitoring_task, start_log,
                   stops, manual, reader, evals>>
    /\ UNCHANGED <<rayVars, mgrVars, vllmVars>>

\* CancelledError is thrown into task t where it is suspended.  It is not an
\* Exception: no except clause of the probe or of perform_health_check
\* catches it, and the loop's "except asyncio.CancelledError: break" ends the
\* coroutine.  A task cancelled before its first step never runs.
CancelDelivered(t) ==
    /\ tasks[t].pc \in {"created", "probing", "sleeping"}
    /\ tasks[t].must_cancel
    /\ tasks' = [tasks EXCEPT ![t].pc = "done",
                              ![t].must_cancel = FALSE,
                              ![t].frame = NoFrame]
    /\ UNCHANGED <<response_times, request_count, error_count, health_history,
                   last_health_check, monitoring_active, monitoring_task, start_log,
                   stops, manual, reader, now, evals>>
    /\ UNCHANGED <<rayVars, mgrVars, vllmVars>>

\* run_health_check: perform_health_check up to the await of the engine
ManualBegin(c, rd) ==
    /\ manual[c].pc = "idle"
    /\ evals < MaxEvals
    /\ evals' = evals + 1
    /\ manual' = [manual EXCEPT ![c].pc = "probing",
                                ![c].frame = CheckFrame(response_times, error_count,
                                                        request_count, rd)]
    /\ UNCHANGED <<response_times, request_count, error_count, health_history,
                   last_health_check, monitoring_active, monitoring_task, start_log,
                   tasks, stops, reader, now>>
    /\ UNCHANGED <<rayVars, mgrVars, vllmVars>>

\* run_health_check: the engine answers and the result is returned
ManualReturns(c, stats) ==
    /\ manual[c].pc = "probing"
    /\ CheckSucceeds(manual[c].frame, stats)
    /\ manual' = [manual EXCEPT ![c] = [pc |-> "idle", frame |-> NoFrame]]
    /\ UNCHANGED <<response_times, request_count, error_count,
                   monitoring_active, monitoring_task, start_log,
                   tasks, stops, reader, evals>>
    /\ UNCHANGED <<rayVars, mgrVars, vllmVars>>

\* run_health_check: the probe raises and the ERROR snapshot is returned
ManualRaises(c) ==
    /\ manual[c].pc = "probing"
    /\ CheckFails
    /\ manual' = [manual EXCEPT ![c] = [pc |-> "idle", frame |-> NoFrame]]
    /\ UNCHANGED <<response_times, request_count, error_count,
                   monitoring_active, monitoring_task, start_log,
                   tasks, stops, reader, evals>>
    /\ UNCHANGED <<rayVars, mgrVars, vllmVars>>

\* get_current_status: reads the summary, calls nothing else
get_current_status ==
    /\ reader' = get_health_summary(health_history)
    /\ UNCHANGED <<response_times, request_count, error_count, health_history,
                   last_health_check, monitoring_active, monitoring_task, start_log,
                   tasks, stops, manual, now, evals>>
    /\ UNCHANGED <<rayVars, mgrVars, vllmVars>>

\* A request completes and its callback records it
RecordRequest(response_time, success) ==
    /\ request_count < MaxMonRequests
    /\ record_request_metrics(response_time, success)
    /\ UNCHANGED <<health_history, last_health_check, monitoring_active,
                   monitoring_task, start_log, tasks, stops, manual, reader, now, evals>>
    /\ UNCHANGED <<rayVars, mgrVars, vllmVars>>

\* get_current_status has not been called
NoRead == [status |-> "none"]

InitMonitor ==
    /\ response_times = <<>>
    /\ request_count = 0
    /\ error_count = 0
    /\ health_history = <<>>
    /\ last_health_check = 0
    /\ monitoring_active = FALSE
    /\ monitoring_task = NoTask
    /\ start_log = "none"
    /\ tasks = [t \in TaskIds |-> NewTask]
    /\ stops = [s \in Stoppers |-> [pc |-> "idle", task |-> NoTask]]
    /\ manual = [c \in Callers |-> [pc |-> "idle", frame |-> NoFrame]]
    /\ reader = NoRead
    /\ now = 0
    /\ evals = 0

----------------------------------------------------------------------------
(* The classifier called directly, and the history route *)

\* Metrics dicts handed to determine_model_status: values at and around every
\* limit, absent accelerator readings, and values that are not numbers
ClassifyInputs ==
    [ response_time_p95 : {0, 5, 6, 10, 11, None, NotANumber},
      error_rate : {Ratio(0, 1), Ratio(1, 20), Ratio(2, 20), Ratio(3, 20),
                    Ratio(4, 20), NotARatio},
      gpu_memory_usage_percent : {None, 0, 90, 91, 98, 99, NotANumber},
      temperature : {None, 80, 81, 90, 91, NotANumber} ]

\* determine_model_status(metrics) called on its own
ClassifyMetrics(metrics) ==
    /\ reader' = [kind |-> "classified", metrics |-> metrics,
                  status |-> determine_model_status(metrics)]
    /\ UNCHANGED <<response_times, request_count, error_count, health_history,
                   last_health_check, monitoring_active, monitoring_task, start_log,
                   tasks, stops, manual, now, evals>>
    /\ UNCHANGED <<rayVars, mgrVars, vllmVars>>

\* sums, means and maxima of ratios, exact
RatioAdd(a, b) == Ratio(a.num * b.den + b.num * a.den, a.den * b.den)
RatioGreater(a, b) == a.num * b.den > b.num * a.den

RECURSIVE RatioSum(_)
RatioSum(s) == IF s = <<>> THEN Ratio(0, 1) ELSE RatioAdd(Head(s), RatioSum(Tail(s)))

RECURSIVE RatioMax(_)
RatioMax(s) ==
    IF Len(s) = 1 THEN Head(s)
    ELSE LET m == RatioMax(Tail(s))
         IN  IF RatioGreater(Head(s), m) THEN Head(s) ELSE m

\* sum(xs) / len(xs) if xs else 0
RatioMean(s) ==
    IF s = <<>> THEN Ratio(0, 1)
    ELSE Ratio(RatioSum(s).num, RatioSum(s).den * Len(s))

\* ModelHealthChecker.get_historical_data: the snapshots newer than the
\* cutoff, oldest first, as dicts
get_historical_data(history, cutoff_time) ==
    LET kept == SelectSeq(history, LAMBDA h : h.last_check_time > cutoff_time)
    IN  [ i \in 1..Len(kept) |->
            [ timestamp |-> kept[i].last_check_time,
              status |-> kept[i].status,
              response_time_avg |-> kept[i].response_time_avg,
              response_time_p95 |-> kept[i].response_time_p95,
              error_rate |-> kept[i].error_rate,
              gpu_memory_usage |-> kept[i].gpu_memory_usage_percent,
              gpu_temperature |-> kept[i].temperature,
              throughput |-> kept[i].throughput_tokens_per_second,
              active_requests |-> kept[i].active_requests ] ]

\* (variant) only HEALTHY snapshots count as up
HealthyOnlyCount(historical_data) ==
    Cardinality({i \in 1..Len(historical_data) :
                    historical_data[i].status = "healthy"})

\* status_counts.get("healthy", 0) + status_counts.get("degraded", 0)
healthy_count(historical_data) ==
    Cardinality({i \in 1..Len(historical_data) :
                    historical_data[i].status \in {"healthy", "degraded"}})

\* status_counts of the route
StatusDistribution(historical_data) ==
    LET present == {historical_data[i].status : i \in 1..Len(historical_data)}
    IN  [st \in present |->
            Cardinality({i \in 1..Len(historical_data) :
                            historical_data[i].status = st})]

\* get_model_history: the summary over the queried snapshots
HistorySummary(historical_data) ==
    IF historical_data # <<>>
    THEN LET avgs == SelectSeq(
                       [i \in 1..Len(historical_data) |->
                            historical_data[i].response_time_avg],
                       LAMBDA r : r.num # 0)
             error_rates == [i \in 1..Len(historical_data) |->
                                historical_data[i].error_rate]
         IN  [ avg_response_time |-> RatioMean(avgs),
               max_response_time |-> IF avgs # <<>> THEN RatioMax(avgs) ELSE Ratio(0, 1),
               avg_error_rate |-> RatioMean(error_rates),
               uptime_percentage |-> Ratio(healthy_count(historical_data) * 100,
                                           Len(historical_data)),
               status_distribution |-> StatusDistribution(historical_data) ]
    ELSE [ avg_response_time |-> Ratio(0, 1),
           max_response_time |-> Ratio(0, 1),
           avg_error_rate |-> Ratio(0, 1),
           uptime_percentage |-> Ratio(0, 1),
           status_distribution |-> <<>> ]

\* The hours a query asks for (a tick of the model's clock is one hour): the
\* shortest and the longest lookback the route accepts, and one beyond each
Lookbacks == {0, 1, 168, 169}

\* GET /model/history
get_model_history(hours) ==
    LET cutoff_time == now - hours
        historical_data == get_historical_data(health_history, cutoff_time)
    IN  /\ reader' = IF hours < 1 \/ hours > 168
                     THEN [kind |-> "rejected", status_code |-> 400]
                     ELSE [kind |-> "history", data |-> historical_data,
                           summary |-> HistorySummary(historical_data)]
        /\ UNCHANGED <<response_times, request_count, error_count, health_history,
                       last_health_check, monitoring_active, monitoring_task,
                       start_log, tasks, stops, manual, now, evals>>
        /\ UNCHANGED <<rayVars, mgrVars, vllmVars>>

----------------------------------------------------------------------------
(* RayClusterService *)

\* (variant) one try more
OneMoreAttempt == 3 + 1

\* self._max_retry_attempts
_max_retry_attempts == 3

\* range(1, self._max_retry_attempts + 1)
RetryAttempts == 1.._max_retry_attempts

\* The one caller of the event loop's handlers, which run the service's
\* synchronous methods to completion
RayCallers == {1}

\* Threads that call the service at the same time
RayThreads == {1, 2}

\* What the coordinator reports when _collect_cluster_info queries it
ClusterViews ==
    { [gpu_total |-> 0, gpu_available |-> 0, total_nodes |-> 1, alive_nodes |-> 1],
      [gpu_total |-> 2, gpu_available |-> 1, total_nodes |-> 2, alive_nodes |-> 1] }

\* time.time() - start_time of a connect
ConnectDurations == {1, 2}

\* self._cluster_info: None, {"error": ...} or the collected snapshot
NoInfo == [kind |-> "none"]
ErrorInfo == [kind |-> "error"]
FullInfo(view, nodes_ok) ==
    [ kind |-> "full",
      cluster_resources |-> [GPU |-> view.gpu_total],
      available_resources |-> [GPU |-> view.gpu_available],
      nodes |-> IF nodes_ok
                THEN [kind |-> "nodes", total_nodes |-> view.total_nodes,
                      alive_nodes |-> view.alive_nodes]
                ELSE [kind |-> "error"],
      dashboard |-> "url",
      connected_at |-> "set" ]

\* _collect_cluster_info: a failing resource query leaves {"error": ...} and
\* is not raised; a failing ray.nodes() leaves {"error": ...} as the node entry
CollectOutcomes ==
    {ErrorInfo} \cup {FullInfo(v, ok) : v \in ClusterViews, ok \in BOOLEAN}

\* What a method returned (or raised), as the dict or value of the code
NoResult == [kind |-> "none"]

\* The call a caller is in.  op is the method, pc where it is:
\*   idle      no call in progress (op, ret, result describe the last call)
\*   reinit    reconnect has run shutdown() and is about to call initialize()
\*   connect   initialize is about to call ray.init for try number attempt
\*   delay     initialize is about to time.sleep(self._retry_delay)
\* inits, raised, sleeps count this call's ray.init calls, those that raised,
\* and its delays; shutdowns its ray.shutdown() calls; steps the methods a
\* reconnect has called; gate what the guarding is_connected() returned;
\* touched whether the coordinator's resource or task interface was called;
\* view the node list and resource map a health query was given
NoCall == [op |-> "none", pc |-> "idle", attempt |-> 0, inits |-> 0,
           raised |-> 0, sleeps |-> 0, ret |-> FALSE, steps |-> <<>>,
           shutdowns |-> 0, gate |-> FALSE, touched |-> FALSE,
           result |-> NoResult, view |-> NoResult]

Returned(c, op, ret) ==
    [call EXCEPT ![c].op = op, ![c].pc = "idle", ![c].ret = ret]

\* (variant) initialize never takes the early return
NeverConnected == FALSE

\* initialize: if self._connected
AlreadyConnected == _connected

\* The entry of initialize(): the early return, or into the retry loop
EnterInitialize(c, cl) ==
    IF AlreadyConnected
    THEN call' = [call EXCEPT ![c] = [cl EXCEPT !.pc = "idle", !.ret = TRUE]]
    ELSE call' = [call EXCEPT ![c] = [cl EXCEPT !.pc = "connect", !.attempt = 1]]

\* initialize(): the early return, or the entry into the retry loop
initialize(c) ==
    /\ call[c].pc = "idle"
    /\ EnterInitialize(c, [NoCall EXCEPT !.op = "initialize"])
    /\ UNCHANGED <<_connected, _cluster_info, _connection_time,
                   _connection_attempts, ray_initialized>>
    /\ UNCHANGED <<monVars, mgrVars, vllmVars>>

\* (variant) the delay is taken after every failed try
DelayAfterEveryFailure(attempt) == TRUE

\* if attempt < self._max_retry_attempts: time.sleep(self._retry_delay)
DelayFollows(attempt) == attempt < _max_retry_attempts

\* After a failed try: another try after the delay, or give up
AfterFailure(c, did_raise) ==
    LET cl == [call[c] EXCEPT !.inits = @ + 1,
                              !.raised = IF did_raise THEN @ + 1 ELSE @]
    IN  IF DelayFollows(cl.attempt)
        THEN call' = [call EXCEPT ![c] = [cl EXCEPT !.pc = "delay"]]
        ELSE call' = [call EXCEPT ![c] = [cl EXCEPT !.pc = "idle", !.ret = FALSE]]

\* ray.init raises
ConnectRaises(c) ==
    /\ call[c].pc = "connect"
    /\ AfterFailure(c, TRUE)
    /\ UNCHANGED <<_connected, _cluster_info, _connection_time,
                   _connection_attempts, ray_initialized>>
    /\ UNCHANGED <<monVars, mgrVars, vllmVars>>

\* ray.init returns but ray.is_initialized() is false: RuntimeError
ConnectNotInitialized(c) ==
    /\ call[c].pc = "connect"
    /\ ray_initialized' = FALSE
    /\ AfterFailure(c, FALSE)
    /\ UNCHANGED <<_connected, _cluster_info, _connection_time, _connection_attempts>>
    /\ UNCHANGED <<monVars, mgrVars, vllmVars>>

\* ray.init returns, the cluster info is collected, the state is set
ConnectSucceeds(c, info, duration) ==
    /\ call[c].pc = "connect"
    /\ ray_initialized' = TRUE
    /\ _cluster_info' = info
    /\ _connected' = TRUE
    /\ _connection_time' = duration
    /\ _connection_attempts' = call[c].attempt
    /\ call' = [call EXCEPT ![c].inits = @ + 1, ![c].pc = "idle", ![c].ret = TRUE]
    /\ UNCHANGED <<monVars, mgrVars, vllmVars>>

\* time.sleep(self._retry_delay), then the next try
RetryDelay(c) ==
    /\ call[c].pc = "delay"
    /\ call[c].attempt + 1 \in RetryAttempts
    /\ call' = [call EXCEPT ![c].pc = "connect",
                            ![c].attempt = @ + 1,
                            ![c].sleeps = @ + 1]
    /\ UNCHANGED <<_connected, _cluster_info, _connection_time,
                   _connection_attempts, ray_initialized>>
    /\ UNCHANGED <<monVars, mgrVars, vllmVars>>

\* What is_connected() returns when the flag is flag and ray.is_initialized()
\* raises or answers
IsConnectedReturn(flag, raises) ==
    IF ~flag THEN FALSE
    ELSE IF raises THEN FALSE
    ELSE ray_initialized

\* The flag after is_connected(): only an exception of ray.is_initialized()
\* clears it
IsConnectedFlag(flag, raises) ==
    IF flag /\ raises THEN FALSE ELSE flag

\* is_connected(): the flag, then ray.is_initialized()
is_connected(c, raises) ==
    /\ call[c].pc = "idle"
    /\ _connected' = IsConnectedFlag(_connected, raises)
    /\ call' = [call EXCEPT ![c] =
                  [NoCall EXCEPT !.op = "is_connected",
                                 !.ret = IsConnectedReturn(_connected, raises)]]
    /\ UNCHANGED <<_cluster_info, _connection_time, _connection_attempts,
                   ray_initialized>>
    /\ UNCHANGED <<monVars, mgrVars, vllmVars>>

\* VLLMService.engine_actor is "none" (no handle), "live" (a handle whose
\* coordinator connection is up) or "stale" (a handle left from a connection
\* that has ended).
\* An actor does not outlive the connection it was created on
ActorAfterTeardown(actor) == IF actor = "live" THEN "stale" ELSE actor

\* The body of shutdown(): ray.shutdown() and the reset, or nothing when the
\* manager is not connected or ray.shutdown() raises
ShutdownEffect(raises) ==
    IF _connected /\ ~raises
    THEN /\ ray_initialized' = FALSE
         /\ _connected' = FALSE
         /\ _cluster_info' = NoInfo
         /\ _connection_time' = None
         /\ engine_actor' = ActorAfterTeardown(engine_actor)
    ELSE UNCHANGED <<ray_initialized, _connected, _cluster_info, _connection_time,
                     engine_actor>>

\* The ray.shutdown() calls one shutdown() makes
ShutdownCalls == IF _connected THEN 1 ELSE 0

\* shutdown()
shutdown(c, raises) ==
    /\ call[c].pc = "idle"
    /\ call' = [call EXCEPT ![c] = [NoCall EXCEPT !.op = "shutdown",
                                                  !.shutdowns = ShutdownCalls]]
    /\ ShutdownEffect(raises)
    /\ UNCHANGED _connection_attempts
    /\ UNCHANGED <<monVars, mgrVars, _initialized>>

\* (variant) reconnect tears down only a connected manager
TearsDownOnlyConnected(connected) == connected

\* reconnect: self.shutdown() is called whatever the state
ReconnectTearsDown(connected) == TRUE

\* reconnect(), its first half: shutdown()
reconnect(c, raises) ==
    /\ call[c].pc = "idle"
    /\ IF ReconnectTearsDown(_connected)
       THEN /\ call' = [call EXCEPT ![c] =
                          [NoCall EXCEPT !.op = "reconnect", !.pc = "reinit",
                                         !.steps = <<"shutdown">>,
                                         !.shutdowns = ShutdownCalls]]
            /\ ShutdownEffect(raises)
       ELSE /\ call' = [call EXCEPT ![c] =
                          [NoCall EXCEPT !.op = "reconnect", !.pc = "reinit"]]
            /\ UNCHANGED <<ray_initialized, _connected, _cluster_info,
                           _connection_time, engine_actor>>
    /\ UNCHANGED _connection_attempts
    /\ UNCHANGED <<monVars, mgrVars, _initialized>>

\* reconnect(), its second half: return self.initialize()
ReconnectInitialize(c) ==
    /\ call[c].pc = "reinit"
    /\ EnterInitialize(c, [call[c] EXCEPT !.steps = Append(@, "initialize")])
    /\ UNCHANGED <<_connected, _cluster_info, _connection_time,
                   _connection_attempts, ray_initialized>>
    /\ UNCHANGED <<monVars, mgrVars, vllmVars>>

\* The coordinator connection is lost
RayDrops ==
    /\ ray_initialized
    /\ ray_initialized' = FALSE
    /\ engine_actor' = ActorAfterTeardown(engine_actor)
    /\ UNCHANGED <<_connected, _cluster_info, _connection_time,
                   _connection_attempts, call>>
    /\ UNCHANGED <<monVars, mgrVars, _initialized>>

\* The cluster-dependent methods, by what they do when not connected
QueryOps == {"get_cluster_resources", "get_ray_context", "get_performance_metrics"}
RaisingOps == {"submit_task", "create_actor", "wait_for_tasks", "get_task_result"}
GatedOps == QueryOps \cup RaisingOps \cup {"get_cluster_status", "cancel_task"}

\* What each method answers when its is_connected() guard fails
Refusal(op) ==
    IF op \in QueryOps THEN [kind |-> "error", error |-> "not_connected"]
    ELSE IF op = "get_cluster_status"
         THEN [kind |-> "status", connected |-> FALSE, error |-> "not_connected"]
    ELSE IF op = "monitor_cluster_health"
         THEN [kind |-> "health", healthy |-> FALSE, reason |-> "not_connected"]
    ELSE IF op = "cancel_task" THEN [kind |-> "false"]
    ELSE [kind |-> "RuntimeError", message |-> "not_connected"]

\* What each method answers when a coordinator call inside its try raises
Failure(op) ==
    IF op \in QueryOps THEN [kind |-> "error", error |-> "exception"]
    ELSE IF op = "get_cluster_status"
         THEN [kind |-> "status", connected |-> FALSE, error |-> "exception"]
    ELSE IF op = "monitor_cluster_health"
         THEN [kind |-> "health", healthy |-> FALSE, reason |-> "check_failed"]
    ELSE IF op = "cancel_task" THEN [kind |-> "false"]
    ELSE [kind |-> "raised"]

\* What each method answers when its coordinator calls succeed
Success(op) ==
    IF op = "get_cluster_status" THEN [kind |-> "status", connected |-> TRUE]
    ELSE IF op = "cancel_task" THEN [kind |-> "true"]
    ELSE [kind |-> "ok"]

\* (variant) the guard lets every call through
GuardAlwaysPasses(op, connected) == TRUE

\* if not self.is_connected(): refuse
PassesGuard(op, connected) == connected

\* A cluster-dependent method other than monitor_cluster_health.  raises and
\* raises2 say whether ray.is_initialized() raises in the guard and in the
\* guard of the nested get_cluster_resources(); fails whether a coordinator
\* call inside the try raises
ClusterOp(c, op, raises, raises2, fails) ==
    LET gate == IsConnectedReturn(_connected, raises)
        flag == IsConnectedFlag(_connected, raises)
        pass == PassesGuard(op, gate)
        nested == pass /\ op = "get_cluster_status"
    IN  /\ call[c].pc = "idle"
        /\ _connected' = IF nested THEN IsConnectedFlag(flag, raises2) ELSE flag
        /\ call' = [call EXCEPT ![c] =
                      [NoCall EXCEPT !.op = op,
                                     !.gate = gate,
                                     !.touched = pass,
                                     !.result = IF ~pass THEN Refusal(op)
                                                ELSE IF fails \/ (nested /\ _cluster_info = NoInfo)
                                                     THEN Failure(op)
                                                     ELSE Success(op)]]
        /\ UNCHANGED <<_cluster_info, _connection_time, _connection_attempts,
                       ray_initialized>>
        /\ UNCHANGED <<monVars, mgrVars, vllmVars>>

\* What ray.nodes() returns: the Alive entry of each node
NodeLists == { <<>>, <<TRUE>>, <<FALSE>>, <<TRUE, TRUE>>, <<TRUE, FALSE>> }

\* What ray.cluster_resources() and ray.available_resources() hold for "GPU"
\* (0 also stands for a map without the key)
GpuMaps == { [gpu_total |-> 0, gpu_available |-> 0],
             [gpu_total |-> 2, gpu_available |-> 0],
             [gpu_total |-> 2, gpu_available |-> 1] }

\* _get_node_info: the counts, or {"error": ...} when ray.nodes() raises
_get_node_info(nodes, nodes_ok) ==
    IF nodes_ok
    THEN [kind |-> "nodes", total_nodes |-> Len(nodes),
          alive_nodes |-> Cardinality({i \in 1..Len(nodes) : nodes[i]})]
    ELSE [kind |-> "error"]

\* nodes_info.get(key, 0)
NodeCount(nodes_info, key) ==
    IF key \in DOMAIN nodes_info THEN nodes_info[key] ELSE 0

\* (variant) the accelerator is not looked at
HealthyIgnoresGpu(alive_nodes, total_nodes, gpu_total) ==
    alive_nodes > 0 /\ alive_nodes = total_nodes

\* monitor_cluster_health: healthy = (...)
healthy(alive_nodes, total_nodes, gpu_total) ==
    /\ alive_nodes > 0
    /\ alive_nodes = total_nodes
    /\ gpu_total > 0

\* monitor_cluster_health: the warnings list
HealthWarnings(alive_nodes, total_nodes, gpu_total, gpu_available) ==
    (IF alive_nodes < total_nodes THEN {"nodes_offline"} ELSE {})
    \cup (IF gpu_total = 0 THEN {"no_gpu"} ELSE {})
    \cup (IF gpu_available = 0 THEN {"no_gpu_available"} ELSE {})

\* monitor_cluster_health: health_info
HealthInfo(nodes, nodes_ok, gpus) ==
    LET nodes_info == _get_node_info(nodes, nodes_ok)
        alive_nodes == NodeCount(nodes_info, "alive_nodes")
        total_nodes == NodeCount(nodes_info, "total_nodes")
    IN  [ kind |-> "health",
          healthy |-> healthy(alive_nodes, total_nodes, gpus.gpu_total),
          nodes |-> [total |-> total_nodes, alive |-> alive_nodes,
                     dead |-> total_nodes - alive_nodes],
          resources |-> [gpu_total |-> gpus.gpu_total,
                         gpu_available |-> gpus.gpu_available,
                         gpu_utilization |->
                             IF gpus.gpu_total > 0
                             THEN ((gpus.gpu_total - gpus.gpu_available) * 100)
                                      \div gpus.gpu_total
                             ELSE 0],
          warnings |-> HealthWarnings(alive_nodes, total_nodes,
                                      gpus.gpu_total, gpus.gpu_available) ]

\* monitor_cluster_health().  raises: ray.is_initialized() raises in the
\* guard; fails: a resource query raises
monitor_cluster_health(c, raises, nodes, nodes_ok, gpus, fails) ==
    LET gate == IsConnectedReturn(_connected, raises)
        pass == PassesGuard("monitor_cluster_health", gate)
        broken == fails \/ _cluster_info = NoInfo
    IN  /\ call[c].pc = "idle"
        /\ _connected' = IsConnectedFlag(_connected, raises)
        /\ call' = [call EXCEPT ![c] =
                      [NoCall EXCEPT
                         !.op = "monitor_cluster_health",
                         !.gate = gate,
                         !.touched = pass,
                         !.view = IF pass /\ ~broken
                                  THEN [nodes |-> nodes, nodes_ok |-> nodes_ok,
                                        gpu_total |-> gpus.gpu_total]
                                  ELSE NoResult,
                         !.result = IF ~pass THEN Refusal("monitor_cluster_health")
                                    ELSE IF broken THEN Failure("monitor_cluster_health")
                                    ELSE HealthInfo(nodes, nodes_ok, gpus)]]
        /\ UNCHANGED <<_cluster_info, _connection_time, _connection_attempts,
                       ray_initialized>>
        /\ UNCHANGED <<monVars, mgrVars, vllmVars>>

InitRay ==
    /\ _connected = FALSE
    /\ _cluster_info = NoInfo
    /\ _connection_time = None
    /\ _connection_attempts = 0
    /\ ray_initialized = FALSE
    /\ call = [c \in RayThreads |-> NoCall]

\* The manager after a successful initialize(): connected, the snapshot taken
InitConnected ==
    /\ _connected = TRUE
    /\ _cluster_info \in {FullInfo(v, TRUE) : v \in ClusterViews}
    /\ _connection_time = 1
    /\ _connection_attempts = 1
    /\ ray_initialized = TRUE
    /\ call = [c \in RayThreads |-> NoCall]

----------------------------------------------------------------------------
(* RayTaskManager *)

\* task_name arguments: absent (None or "", both falsy) or given
TaskNames == {"", "job"}

\* f"task_{self.task_counter}", or f"{task_name}_{self.task_counter}" when a
\* name is given: the text before the last underscore and the number after it
TaskId(task_name, counter) ==
    [prefix |-> IF task_name = "" THEN "task" ELSE task_name, counter |-> counter]

\* the dict active_tasks, its entries in insertion order
HasKey(d, task_id) == \E i \in 1..Len(d) : d[i].task_id = task_id
\* d[task_id] = task_ref: a present key keeps its place
DictPut(d, task_id, task_ref) ==
    IF HasKey(d, task_id)
    THEN [i \in 1..Len(d) |->
            IF d[i].task_id = task_id
            THEN [task_id |-> task_id, task_ref |-> task_ref] ELSE d[i]]
    ELSE Append(d, [task_id |-> task_id, task_ref |-> task_ref])
\* del d[task_id]
DictDel(d, task_id) == SelectSeq(d, LAMBDA e : e.task_id # task_id)

\* The submit_task call a thread is in.  pc is where it is:
\*   idle    no call in progress (ret says how the last one ended)
\*   store   self.task_counter was read, the sum is about to be stored
\*   name    the sum was stored, self.task_counter is about to be read again
\*   remote  task_id is built, ray_service.submit_task is about to be called
NoSubmit == [pc |-> "idle", task_name |-> "", loaded |-> 0,
             task_id |-> [prefix |-> "", counter |-> 0], ret |-> "none"]

\* submit_task: the guard, then the read of self.task_counter += 1
SubmitBegin(th, task_name, raises) ==
    /\ submits[th].pc = "idle"
    /\ task_counter < MaxSubmits
    /\ _connected' = IsConnectedFlag(_connected, raises)
    /\ submits' = [submits EXCEPT ![th] =
                     IF IsConnectedReturn(_connected, raises)
                     THEN [NoSubmit EXCEPT !.pc = "store", !.task_name = task_name,
                                           !.loaded = task_counter]
                     ELSE [NoSubmit EXCEPT !.ret = "RuntimeError"]]
    /\ UNCHANGED <<task_counter, active_tasks, ray_tasks, returned, tasks_reader>>
    /\ UNCHANGED <<_cluster_info, _connection_time, _connection_attempts,
                   ray_initialized, call>>
    /\ UNCHANGED <<monVars, vllmVars>>

\* submit_task: the store of self.task_counter += 1
SubmitStore(th) ==
    /\ submits[th].pc = "store"
    /\ task_counter' = submits[th].loaded + 1
    /\ submits' = [submits EXCEPT ![th].pc = "name"]
    /\ UNCHANGED <<active_tasks, ray_tasks, returned, tasks_reader>>
    /\ UNCHANGED <<rayVars, monVars, vllmVars>>

\* submit_task: task_id is built from self.task_counter as it is now
SubmitName(th) ==
    /\ submits[th].pc = "name"
    /\ submits' = [submits EXCEPT ![th].pc = "remote",
                                  ![th].task_id = TaskId(submits[th].task_name,
                                                         task_counter)]
    /\ UNCHANGED <<task_counter, active_tasks, ray_tasks, returned, tasks_reader>>
    /\ UNCHANGED <<rayVars, monVars, vllmVars>>

\* submit_task: ray_service.submit_task (guarded again), the entry in
\* active_tasks, the return; or the exception re-raised, nothing stored
SubmitRemote(th, raises, fails) ==
    LET ok == IsConnectedReturn(_connected, raises) /\ ~fails
        task_ref == Len(ray_tasks) + 1
    IN  /\ submits[th].pc = "remote"
        /\ _connected' = IsConnectedFlag(_connected, raises)
        /\ IF ok
           THEN /\ ray_tasks' = Append(ray_tasks, "running")
                /\ active_tasks' = DictPut(active_tasks, submits[th].task_id, task_ref)
                /\ returned' = Append(returned, [task_id |-> submits[th].task_id,
                                                 task_ref |-> task_ref])
                /\ submits' = [submits EXCEPT ![th].pc = "idle", ![th].ret = "returned"]
           ELSE /\ submits' = [submits EXCEPT ![th].pc = "idle", ![th].ret = "raised"]
                /\ UNCHANGED <<ray_tasks, active_tasks, returned>>
        /\ UNCHANGED <<task_counter, tasks_reader>>
        /\ UNCHANGED <<_cluster_info, _connection_time, _connection_attempts,
                       ray_initialized, call>>
        /\ UNCHANGED <<monVars, vllmVars>>

\* A task of the coordinator finishes: with a result ("done"), or with an
\* error that ray.get raises ("raises")
TaskFinishes(task_ref, outcome) ==
    /\ task_ref \in 1..Len(ray_tasks)
    /\ ray_tasks[task_ref] = "running"
    /\ ray_tasks' = [ray_tasks EXCEPT ![task_ref] = outcome]
    /\ UNCHANGED <<task_counter, active_tasks, submits, returned, tasks_reader>>
    /\ UNCHANGED <<rayVars, monVars, vllmVars>>

\* get_task_status: the status it reports ("none" for the {"error": ...}
\* dict, which has no status key).  gate is what the is_connected() guard of
\* wait_for_tasks and get_task_result answers
StatusOf(d, task_id, gate, states) ==
    IF ~HasKey(d, task_id) \/ ~gate
    THEN [task_id |-> task_id, status |-> "none", error |-> "error"]
    ELSE LET i == CHOOSE i \in 1..Len(d) : d[i].task_id = task_id
             state == states[d[i].task_ref]
         IN  [task_id |-> task_id,
              status |-> IF state = "running" THEN "running"
                         ELSE IF state = "done" THEN "completed"
                         ELSE "failed"]

\* get_task_status: active_tasks after it.  del self.active_tasks[task_id]
\* sits after the result was retrieved, inside the try that a failing
\* retrieval leaves
ActiveAfterStatus(d, task_id, gate, states) ==
    IF StatusOf(d, task_id, gate, states).status = "completed"
    THEN DictDel(d, task_id)
    ELSE d

\* get_task_status(task_id)
get_task_status(c, task_id, raises) ==
    LET gate == IsConnectedReturn(_connected, raises)
    IN  /\ submits[c].pc = "idle"
        /\ _connected' = IF HasKey(active_tasks, task_id)
                         THEN IsConnectedFlag(_connected, raises) ELSE _connected
        /\ tasks_reader' = [kind |-> "status",
                            status |-> StatusOf(active_tasks, task_id, gate, ray_tasks)]
        /\ active_tasks' = ActiveAfterStatus(active_tasks, task_id, gate, ray_tasks)
        /\ UNCHANGED <<task_counter, ray_tasks, submits, returned>>
        /\ UNCHANGED <<_cluster_info, _connection_time, _connection_attempts,
                       ray_initialized, call>>
        /\ UNCHANGED <<monVars, vllmVars>>

\* cancel_task(task_id): the entry is dropped when ray_service.cancel_task
\* answers True
cancel_task(c, task_id, raises, fails) ==
    LET gate == IsConnectedReturn(_connected, raises)
        tracked == HasKey(active_tasks, task_id)
        success == tracked /\ gate /\ ~fails
    IN  /\ submits[c].pc = "idle"
        /\ _connected' = IF tracked THEN IsConnectedFlag(_connected, raises)
                         ELSE _connected
        /\ tasks_reader' = [kind |-> "cancel", task_id |-> task_id, ret |-> success]
        /\ active_tasks' = IF success THEN DictDel(active_tasks, task_id)
                           ELSE active_tasks
        /\ UNCHANGED <<task_counter, ray_tasks, submits, returned>>
        /\ UNCHANGED <<_cluster_info, _connection_time, _connection_attempts,
                       ray_initialized, call>>
        /\ UNCHANGED <<monVars, vllmVars>>

\* get_all_tasks_status: the dict comprehension over self.active_tasks.keys(),
\* from entry i on; statuses are the status dicts collected so far.  A dict
\* whose size changed while its keys are walked makes the next step of the
\* walk raise RuntimeError
RECURSIVE StatusWalk(_, _, _, _, _)
StatusWalk(d, i, statuses, gate, states) ==
    IF i > Len(d)
    THEN [raised |-> FALSE, tasks |-> statuses, active |-> d]
    ELSE LET task_id == d[i].task_id
             after == ActiveAfterStatus(d, task_id, gate, states)
         IN  IF Len(after) # Len(d)
             THEN [raised |-> TRUE, tasks |-> <<>>, active |-> after]
             ELSE StatusWalk(d, i + 1,
                             Append(statuses, StatusOf(d, task_id, gate, states)),
                             gate, states)

\* get_all_tasks_status()
get_all_tasks_status(c, raises) ==
    LET gate == IsConnectedReturn(_connected, raises)
        walk == StatusWalk(active_tasks, 1, <<>>, gate, ray_tasks)
    IN  /\ submits[c].pc = "idle"
        /\ _connected' = IF active_tasks # <<>>
                         THEN IsConnectedFlag(_connected, raises) ELSE _connected
        /\ tasks_reader' = IF walk.raised
                           THEN [kind |-> "all", raised |-> TRUE,
                                 tracked |-> active_tasks]
                           ELSE [kind |-> "all", raised |-> FALSE,
                                 tracked |-> active_tasks,
                                 total_tasks |-> Len(active_tasks),
                                 tasks |-> walk.tasks]
        /\ active_tasks' = walk.active
        /\ UNCHANGED <<task_counter, ray_tasks, submits, returned>>
        /\ UNCHANGED <<_cluster_info, _connection_time, _connection_attempts,
                       ray_initialized, call>>
        /\ UNCHANGED <<monVars, vllmVars>>

\* cleanup_completed_tasks: get_task_status on every key of a copy of the
\* keys; nothing else is deleted
RECURSIVE CleanupWalk(_, _, _, _)
CleanupWalk(d, keys, gate, states) ==
    IF keys = <<>> THEN d
    ELSE CleanupWalk(ActiveAfterStatus(d, Head(keys).task_id, gate, states),
                     Tail(keys), gate, states)

\* cleanup_completed_tasks()
cleanup_completed_tasks(c, raises) ==
    LET gate == IsConnectedReturn(_connected, raises)
    IN  /\ submits[c].pc = "idle"
        /\ _connected' = IF active_tasks # <<>>
                         THEN IsConnectedFlag(_connected, raises) ELSE _connected
        /\ tasks_reader' = [kind |-> "cleanup", tracked |-> active_tasks,
                            gate |-> gate]
        /\ active_tasks' = CleanupWalk(active_tasks, active_tasks, gate, ray_tasks)
        /\ UNCHANGED <<task_counter, ray_tasks, submits, returned>>
        /\ UNCHANGED <<_cluster_info, _connection_time, _connection_attempts,
                       ray_initialized, call>>
        /\ UNCHANGED <<monVars, vllmVars>>

InitManager ==
    /\ task_counter = 0
    /\ active_tasks = <<>>
    /\ ray_tasks = <<>>
    /\ submits = [th \in RayThreads |-> NoSubmit]
    /\ returned = <<>>
    /\ tasks_reader = [kind |-> "none"]

----------------------------------------------------------------------------
(* VLLMService and the reload route *)

\* VLLMService.initialize(): nothing when already initialized; else the
\* actor is created on the current connection and asked for its health.
\* created: VLLMEngineActor.remote() returns; engine_ok: the health check
\* answers engine_initialized
VllmInitialized(created, engine_ok) ==
    IF _initialized THEN TRUE ELSE created /\ engine_ok

VllmInitialize(created, engine_ok) ==
    /\ _initialized' = VllmInitialized(created, engine_ok)
    /\ engine_actor' = IF ~_initialized /\ created THEN "live" ELSE engine_actor

\* The application start: ray_service.initialize() returned True, then
\* vllm_service.initialize()
startup_vllm(c, engine_ok) ==
    /\ call[c].pc = "idle"
    /\ call[c].op = "initialize"
    /\ call[c].ret = TRUE
    /\ VllmInitialize(ray_initialized, engine_ok)
    /\ call' = [call EXCEPT ![c] = [NoCall EXCEPT !.op = "startup"]]
    /\ UNCHANGED <<_connected, _cluster_info, _connection_time,
                   _connection_attempts, ray_initialized>>
    /\ UNCHANGED <<monVars, mgrVars>>

\* POST /admin/reload, its first step: ray_service.reconnect() runs shutdown()
reload_service(c, raises) ==
    /\ call[c].pc = "idle"
    /\ call' = [call EXCEPT ![c] =
                  [NoCall EXCEPT !.op = "reload_service", !.pc = "reinit",
                                 !.steps = <<"shutdown">>,
                                 !.shutdowns = ShutdownCalls]]
    /\ ShutdownEffect(raises)
    /\ UNCHANGED _connection_attempts
    /\ UNCHANGED <<monVars, mgrVars, _initialized>>

\* POST /admin/reload, after reconnect() returned: 500 when it returned
\* False or vllm_service.initialize() raises, else the success message
ReloadInitialize(c, engine_ok) ==
    /\ call[c].op = "reload_service"
    /\ call[c].pc = "idle"
    /\ call[c].result = NoResult
    /\ IF call[c].ret
       THEN /\ VllmInitialize(ray_initialized, engine_ok)
            /\ call' = [call EXCEPT ![c].steps = Append(@, "vllm_initialize"),
                                    ![c].result =
                                        IF VllmInitialized(ray_initialized, engine_ok)
                                        THEN [kind |-> "reloaded"]
                                        ELSE [kind |-> "http_500"]]
       ELSE /\ call' = [call EXCEPT ![c].result = [kind |-> "http_500"]]
            /\ UNCHANGED vllmVars
    /\ UNCHANGED <<_connected, _cluster_info, _connection_time,
                   _connection_attempts, ray_initialized>>
    /\ UNCHANGED <<monVars, mgrVars>>

InitVllm ==
    /\ _initialized = FALSE
    /\ engine_actor = "none"

----------------------------------------------------------------------------
(* Specifications *)

\* The monitor on its event loop
NextMonitor ==
    \/ start_monitoring
    \/ \E s \in Stoppers : stop_monitoring(s)
    \/ \E s \in Stoppers : StopResume(s)
    \/ \E t \in TaskIds, rd \in Readings : TickBegin(t, rd)
    \/ \E t \in TaskIds : TickUnavailable(t)
    \/ \E t \in TaskIds, stats \in EngineStats : ProbeReturns(t, stats)
    \/ \E t \in TaskIds : ProbeRaises(t)
    \/ \E t \in TaskIds : CancelDelivered(t)
    \/ \E c \in Callers, rd \in Readings : ManualBegin(c, rd)
    \/ \E c \in Callers, stats \in EngineStats : ManualReturns(c, stats)
    \/ \E c \in Callers : ManualRaises(c)
    \/ get_current_status
    \/ \E rt \in MonLatencies, ok \in BOOLEAN : RecordRequest(rt, ok)

Init == InitMonitor /\ InitRay /\ InitManager /\ InitVllm

Spec == Init /\ [][NextMonitor]_vars

\* The metrics window alone, fed like the overflow test: the k-th call
\* records latency k
RecordInWindow(success) ==
    /\ request_count < MaxWinRequests
    /\ record_request_metrics(request_count, success)
    /\ UNCHANGED <<health_history, last_health_check, monitoring_active,
                   monitoring_task, start_log, tasks, stops, manual, reader, now, evals>>
    /\ UNCHANGED <<rayVars, mgrVars, vllmVars>>

NextWindow == \E ok \in BOOLEAN : RecordInWindow(ok)

SpecWindow == Init /\ [][NextWindow]_vars

\* The connection manager, its methods called one at a time
NextRay ==
    \/ \E c \in RayCallers : initialize(c)
    \/ \E c \in RayCallers : ConnectRaises(c)
    \/ \E c \in RayCallers : ConnectNotInitialized(c)
    \/ \E c \in RayCallers, info \in CollectOutcomes, d \in ConnectDurations :
          ConnectSucceeds(c, info, d)
    \/ \E c \in RayCallers : RetryDelay(c)
    \/ \E c \in RayCallers, raises \in BOOLEAN : is_connected(c, raises)
    \/ \E c \in RayCallers, raises \in BOOLEAN : shutdown(c, raises)
    \/ \E c \in RayCallers, raises \in BOOLEAN : reconnect(c, raises)
    \/ \E c \in RayCallers : ReconnectInitialize(c)
    \/ \E c \in RayCallers, op \in GatedOps, raises \in BOOLEAN,
          raises2 \in BOOLEAN, fails \in BOOLEAN :
          ClusterOp(c, op, raises, raises2, fails)
    \/ \E c \in RayCallers, raises \in BOOLEAN, nodes \in NodeLists,
          nodes_ok \in BOOLEAN, gpus \in GpuMaps, fails \in BOOLEAN :
          monitor_cluster_health(c, raises, nodes, nodes_ok, gpus, fails)
    \/ RayDrops

SpecRay == Init /\ [][NextRay]_vars

\* The lifecycle methods called from several threads
NextRayThreads ==
    \/ \E c \in RayThreads : initialize(c)
    \/ \E c \in RayThreads : ConnectRaises(c)
    \/ \E c \in RayThreads : ConnectNotInitialized(c)
    \/ \E c \in RayThreads, info \in CollectOutcomes, d \in ConnectDurations :
          ConnectSucceeds(c, info, d)
    \/ \E c \in RayThreads : RetryDelay(c)
    \/ \E c \in RayThreads, raises \in BOOLEAN : shutdown(c, raises)
    \/ \E c \in RayThreads, raises \in BOOLEAN : reconnect(c, raises)
    \/ \E c \in RayThreads : ReconnectInitialize(c)
    \/ RayDrops

SpecRayThreads == Init /\ [][NextRayThreads]_vars

\* The monitor in a state that some run of requests and evaluations has left:
\* the window, the two counters, the history and the clock
MonitorStartsWith(window, rc, ec, history, time) ==
    /\ response_times = window
    /\ request_count = rc
    /\ error_count = ec
    /\ health_history = history
    /\ last_health_check = time
    /\ monitoring_active = FALSE
    /\ monitoring_task = NoTask
    /\ start_log = "none"
    /\ tasks = [t \in TaskIds |-> NewTask]
    /\ stops = [s \in Stoppers |-> [pc |-> "idle", task |-> NoTask]]
    /\ manual = [c \in Callers |-> [pc |-> "idle", frame |-> NoFrame]]
    /\ reader = NoRead
    /\ now = time
    /\ evals = 0

\* The classifier alone
NextClassify == \E metrics \in ClassifyInputs : ClassifyMetrics(metrics)

SpecClassify == Init /\ [][NextClassify]_vars

\* Windows of EvalRequests latencies of 1 s with two slow requests first
SlowStart(x) == [i \in 1..EvalRequests |-> IF i <= 2 THEN x ELSE 1]

\* Windows and counters that requests have left behind: latencies at and
\* around the limits, error rates at and around the limits, the window of
\* the percentile test, unsorted windows, a full window
EvalPasts ==
    { [window |-> <<>>, request_count |-> 0, error_count |-> 0],
      [window |-> [i \in 1..10 |-> i], request_count |-> 10, error_count |-> 0],
      [window |-> <<3, 1, 2>>, request_count |-> 3, error_count |-> 1],
      [window |-> [i \in 1..WindowSize |-> (i * 37) % 101],
       request_count |-> 150, error_count |-> 30] }
    \cup { [window |-> SlowStart(x), request_count |-> EvalRequests, error_count |-> 0] :
              x \in {1, 5, 6, 10, 11} }
    \cup { [window |-> SlowStart(1), request_count |-> EvalRequests, error_count |-> e] :
              e \in 1..4 }
    \cup { [window |-> SlowStart(11), request_count |-> EvalRequests, error_count |-> 4],
           [window |-> SlowStart(6), request_count |-> EvalRequests, error_count |-> 1] }

\* Accelerator readings at and around the limits, absent ones included
Reading(gpu_memory_percent, gpu_temperature) ==
    [memory |-> 65, gpu_memory_percent |-> gpu_memory_percent,
     gpu_temperature |-> gpu_temperature]
EvalReadings ==
    { Reading(m, None) : m \in {None, 0, 90, 91, 98, 99} }
    \cup { Reading(None, t) : t \in {80, 81, 90, 91} }
    \cup { Reading(91, 91), Reading(99, 81) }

InitEval ==
    /\ \E past \in EvalPasts :
          MonitorStartsWith(past.window, past.request_count, past.error_count, <<>>, 0)
    /\ InitRay
    /\ InitManager
    /\ InitVllm

\* Evaluations on demand over such windows, and the history route
NextEval ==
    \/ \E c \in Callers, rd \in EvalReadings : ManualBegin(c, rd)
    \/ \E c \in Callers, stats \in EngineStats : ManualReturns(c, stats)
    \/ \E c \in Callers : ManualRaises(c)
    \/ \E hours \in Lookbacks : get_model_history(hours)

SpecEval == InitEval /\ [][NextEval]_vars

\* The samples of the end-to-end scenario, in the order they are recorded
ScenarioSamples ==
    << [response_time |-> 1, success |-> TRUE],
       [response_time |-> 2, success |-> TRUE],
       [response_time |-> 10, success |-> FALSE],
       [response_time |-> 10, success |-> FALSE] >>

\* The next request of the scenario completes
ScenarioRecord ==
    /\ request_count < Len(ScenarioSamples)
    /\ record_request_metrics(ScenarioSamples[request_count + 1].response_time,
                              ScenarioSamples[request_count + 1].success)
    /\ UNCHANGED <<health_history, last_health_check, monitoring_active,
                   monitoring_task, start_log, tasks, stops, manual, reader, now, evals>>
    /\ UNCHANGED <<rayVars, mgrVars, vllmVars>>

\* The monitor while the scenario's requests complete
NextScenario ==
    \/ start_monitoring
    \/ \E s \in Stoppers : stop_monitoring(s)
    \/ \E s \in Stoppers : StopResume(s)
    \/ \E t \in TaskIds, rd \in Readings : TickBegin(t, rd)
    \/ \E t \in TaskIds : TickUnavailable(t)
    \/ \E t \in TaskIds, stats \in EngineStats : ProbeReturns(t, stats)
    \/ \E t \in TaskIds : ProbeRaises(t)
    \/ \E t \in TaskIds : CancelDelivered(t)
    \/ \E c \in Callers, rd \in Readings : ManualBegin(c, rd)
    \/ \E c \in Callers, stats \in EngineStats : ManualReturns(c, stats)
    \/ \E c \in Callers : ManualRaises(c)
    \/ ScenarioRecord

SpecScenario == Init /\ [][NextScenario]_vars

\* The history that n earlier evaluations of an idle engine have left
PastHistory(n) ==
    [ i \in 1..n |->
        ModelHealthMetrics(NoFrame, <<>>, CHOOSE stats \in EngineStats : TRUE, i) ]

\* The monitor with a history that is full or about to be
InitHistory ==
    /\ \E n \in (max_history_size - 2)..max_history_size :
          MonitorStartsWith(<<>>, 0, 0, PastHistory(n), n)
    /\ InitRay
    /\ InitManager
    /\ InitVllm

SpecHistory == InitHistory /\ [][NextMonitor]_vars

\* The task ids a caller may ask about: those submit_task can have issued
KnownIds == {TaskId(task_name, k) : task_name \in TaskNames, k \in 1..MaxSubmits}

\* The task manager on a connected cluster manager
InitTasks == InitMonitor /\ InitConnected /\ InitManager /\ InitVllm

\* The task manager, its methods called one at a time
NextTasks ==
    \/ \E c \in RayCallers, task_name \in TaskNames, raises \in BOOLEAN :
          SubmitBegin(c, task_name, raises)
    \/ \E c \in RayCallers : SubmitStore(c)
    \/ \E c \in RayCallers : SubmitName(c)
    \/ \E c \in RayCallers, raises \in BOOLEAN, fails \in BOOLEAN :
          SubmitRemote(c, raises, fails)
    \/ \E task_ref \in 1..MaxSubmits, outcome \in {"done", "raises"} :
          TaskFinishes(task_ref, outcome)
    \/ \E c \in RayCallers, task_id \in KnownIds, raises \in BOOLEAN :
          get_task_status(c, task_id, raises)
    \/ \E c \in RayCallers, task_id \in KnownIds, raises \in BOOLEAN,
          fails \in BOOLEAN : cancel_task(c, task_id, raises, fails)
    \/ \E c \in RayCallers, raises \in BOOLEAN : get_all_tasks_status(c, raises)
    \/ \E c \in RayCallers, raises \in BOOLEAN : cleanup_completed_tasks(c, raises)

SpecTasks == InitTasks /\ [][NextTasks]_vars

\* submit_task called from several threads
NextTaskThreads ==
    \/ \E th \in RayThreads, task_name \in TaskNames, raises \in BOOLEAN :
          SubmitBegin(th, task_name, raises)
    \/ \E th \in RayThreads : SubmitStore(th)
    \/ \E th \in RayThreads : SubmitName(th)
    \/ \E th \in RayThreads, raises \in BOOLEAN, fails \in BOOLEAN :
          SubmitRemote(th, raises, fails)

SpecTaskThreads == InitTasks /\ [][NextTaskThreads]_vars

\* The application start and the reload route
NextReload ==
    \/ \E c \in RayCallers : initialize(c)
    \/ \E c \in RayCallers : ConnectRaises(c)
    \/ \E c \in RayCallers : ConnectNotInitialized(c)
    \/ \E c \in RayCallers, info \in CollectOutcomes, d \in ConnectDurations :
          ConnectSucceeds(c, info, d)
    \/ \E c \in RayCallers : RetryDelay(c)
    \/ \E c \in RayCallers, engine_ok \in BOOLEAN : startup_vllm(c, engine_ok)
    \/ \E c \in RayCallers, raises \in BOOLEAN : reload_service(c, raises)
    \/ \E c \in RayCallers : ReconnectInitialize(c)
    \/ \E c \in RayCallers, engine_ok \in BOOLEAN : ReloadInitialize(c, engine_ok)
    \/ RayDrops

SpecReload == Init /\ [][NextReload]_vars

----------------------------------------------------------------------------
(* Properties *)

\* C1: after any sequence of record_request_metrics calls the window holds at
\* most 100 latencies and error_count <= request_count.
C1_WindowBounded ==
    /\ Len(response_times) <= 100
    /\ error_count <= request_count

\* C1 witness: more than 100 calls were made, some of them failures, and the
\* window is full.
C1_Witness ==
    /\ request_count > 100
    /\ error_count > 0
    /\ Len(response_times) = 100

\* C2: the monitoring loop never terminates because of a probe error.  A tick
\* that ends, failed probe or not, leaves the loop in its sleep before the
\* next tick, and a loop task ends only when it was cancelled or read the
\* monitoring flag cleared, both of which only stop_monitoring causes.
C2_LoopSurvivesProbeError ==
    [][\A t \in TaskIds :
          /\ (tasks[t].pc = "probing" /\ ~tasks[t].must_cancel
                /\ tasks'[t].pc # "probing")
             => tasks'[t].pc = "sleeping"
          /\ (tasks[t].pc # "done" /\ tasks'[t].pc = "done")
             => (tasks[t].must_cancel \/ ~monitoring_active)]_vars

\* C2 witness: a loop whose last tick failed has issued the next probe.
C2_Witness ==
    \E t \in TaskIds : tasks[t].raised /\ tasks[t].pc = "probing"
                       /\ monitoring_active /\ ~tasks[t].must_cancel

\* C3: when the probe of a scheduled tick raises, the tick appends an ERROR
\* snapshot to the history and the current status reads ERROR.
C3_ProbeErrorBecomesStatus ==
    [][\A t \in TaskIds :
          (tasks[t].pc = "probing" /\ tasks'[t].pc = "sleeping" /\ tasks'[t].raised)
          => /\ Len(health_history') = Len(health_history) + 1
             /\ ReportedStatus(get_health_summary(health_history')) = "error"]_vars

\* C4: start_monitoring while RUNNING spawns no task and leaves the running
\* task and the flag as they are; while STOPPED it spawns exactly one loop
\* task, which becomes the monitoring task, and sets RUNNING.
C4_StartIdempotent ==
    [][/\ monitoring_active
          => /\ Spawned' = Spawned
             /\ monitoring_task' = monitoring_task
             /\ (start_log' = "warning" /\ start_log # "warning"
                   => monitoring_active' /\ tasks' = tasks)
       /\ (~monitoring_active /\ monitoring_active')
          => /\ Cardinality(Spawned') = Cardinality(Spawned) + 1
             /\ monitoring_task' \in Spawned' \ Spawned
             /\ tasks'[monitoring_task'].pc = "created"
       /\ Spawned' # Spawned => (~monitoring_active /\ monitoring_active')]_vars

\* C4 witness: a second start_monitoring was refused while the one loop task
\* of the first was running.
C4_Witness ==
    /\ start_log = "warning"
    /\ monitoring_active
    /\ Cardinality(Spawned) = 1
    /\ Cardinality(Alive) = 1

\* C5: at most one monitoring loop instance is alive (spawned and not yet
\* terminated) at any time.
C5_AtMostOneLoopAlive == Cardinality(Alive) <= 1

\* C6: when stop_monitoring returns the monitoring flag is false and the
\* task it cancelled has terminated; stop_monitoring while STOPPED changes
\* nothing.
C6_StopLeavesStopped ==
    [][\A s \in Stoppers :
          /\ (stops[s].pc # "returned" /\ stops'[s].pc = "returned")
             => /\ ~monitoring_active'
                /\ stops'[s].task # NoTask => tasks'[stops'[s].task].pc = "done"
          /\ (stops[s].pc = "idle" /\ stops'[s].pc # "idle" /\ ~monitoring_active)
             => /\ ~monitoring_active'
                /\ monitoring_task' = monitoring_task
                /\ tasks' = tasks]_vars

\* C7: a probe in flight when stop_monitoring is called runs to completion:
\* a loop task never goes from inside its probe to its end, cancellation
\* interrupts only the sleep.
C7_ProbeCompletesBeforeExit ==
    [][\A t \in TaskIds : tasks[t].pc = "probing" => tasks'[t].pc # "done"]_vars

\* All the fields of a ModelHealthMetrics, each set
IsCompleteSnapshot(h) ==
    /\ DOMAIN h = DOMAIN ErrorMetrics(0)
    /\ h.status \in Statuses
    /\ h.last_check_time > 0

\* C8: a snapshot becomes visible only complete and is never modified after
\* it is published: the history changes only by the append of one complete
\* snapshot (the oldest evicted over the limit), and what a reader gets is the
\* summary of the history as it stands, never of a snapshot in the making.
C8_AtomicPublish ==
    [][/\ \/ health_history' = health_history
          \/ /\ health_history' # <<>>
             /\ IsCompleteSnapshot(health_history'[Len(health_history')])
             /\ health_history' =
                  AppendHistory(health_history, health_history'[Len(health_history')])
       /\ reader' # reader
          => /\ reader' = get_health_summary(health_history)
             /\ health_history' = health_history]_vars

\* C8 witness: an evaluation is suspended in its probe, its snapshot not
\* built yet, while a reader holds the summary of the snapshot before it.
C8_Witness ==
    /\ health_history # <<>>
    /\ reader = get_health_summary(health_history)
    /\ \/ \E t \in TaskIds : tasks[t].pc = "probing"
       \/ \E c \in Callers : manual[c].pc = "probing"

\* C9: what get_current_status returns changes only as the result of a
\* scheduler tick; no other operation, a manual run_health_check in
\* particular, changes it.
C9_StatusChangesOnlyByTick ==
    [][get_health_summary(health_history') # get_health_summary(health_history)
       => \E t \in TaskIds : tasks[t].pc = "probing" /\ tasks'[t].pc = "sleeping"]_vars

\* C10: an initialize() whose every connect call raised made exactly 3
\* connect calls, returned False and left the manager disconnected, so
\* that is_connected() is false; no initialize() makes a 4th call.
C10_InitializeGivesUpAfterThree ==
    \A c \in RayCallers :
        /\ call[c].inits <= 3
        /\ (call[c].op = "initialize" /\ call[c].pc = "idle"
              /\ call[c].inits >= 1 /\ call[c].raised = call[c].inits)
           => /\ call[c].inits = 3
              /\ call[c].ret = FALSE
              /\ ~_connected

\* C10 witness: an initialize() returned after three connect calls that all
\* raised.
C10_Witness ==
    \E c \in RayCallers :
        /\ call[c].op = "initialize" /\ call[c].pc = "idle"
        /\ call[c].inits = 3 /\ call[c].raised = 3

\* The manager's state after an operation, as the specification names it
Disconnected == ~_connected /\ _cluster_info = NoInfo
FullyConnected ==
    _connected /\ _cluster_info # NoInfo /\ _connection_time # None

\* C11: when an initialize() call that made k >= 1 connect attempts returns,
\* _connection_attempts equals k (1 after a first-try success, 3 after the
\* third try, whether it succeeded or failed).
C11_AttemptsRecorded ==
    [][\A c \in RayCallers :
          (call[c].pc = "connect" /\ call'[c].pc = "idle")
              => _connection_attempts' = call'[c].inits]_vars

\* C12: is_connected() on a manager whose flag is set while the coordinator
\* reports not-initialized returns False and clears the flag.
C12_SelfDemotes ==
    [][\A c \in RayCallers :
          ( /\ \E raises \in BOOLEAN : is_connected(c, raises)
            /\ _connected
            /\ ~ray_initialized )
              => (~call'[c].ret /\ ~_connected')]_vars

\* C13: when no operation is in progress the manager is DISCONNECTED (flag
\* false, no cached snapshot) or fully CONNECTED (flag true with a snapshot
\* and a connect time), never a mixture.
C13_NoHalfConnected ==
    (\A c \in RayThreads : call[c].pc = "idle")
        => (Disconnected \/ FullyConnected)

\* C14: after any shutdown() the manager is DISCONNECTED with the snapshot
\* cleared, and a shutdown() of a DISCONNECTED manager calls nothing and
\* changes nothing.
C14_ShutdownDisconnects ==
    [][\A c \in RayCallers :
          (\E raises \in BOOLEAN : shutdown(c, raises))
              => /\ ~_connected'
                 /\ _cluster_info' = NoInfo
                 /\ ~_connected =>
                        /\ call'[c].shutdowns = 0
                        /\ UNCHANGED <<_connected, _cluster_info, _connection_time,
                                       _connection_attempts, ray_initialized>>]_vars

\* C15: reconnect() from any state, DISCONNECTED included, calls shutdown()
\* and then initialize(), in that order, skipping neither, and returns what
\* initialize() returned (True exactly when the manager is connected at the
\* return).
C15_ReconnectTearsDownThenInitializes ==
    /\ [](\A c \in RayCallers :
             call[c].op = "reconnect" =>
                 IF call[c].pc = "reinit"
                 THEN call[c].steps = <<"shutdown">>
                 ELSE call[c].steps = <<"shutdown", "initialize">>)
    /\ [][\A c \in RayCallers :
             ( /\ call[c].op = "reconnect"
               /\ call[c].pc # "idle"
               /\ call'[c].pc = "idle" )
                 => call'[c].ret = _connected']_vars

\* C15 witness: a reconnect() of a DISCONNECTED manager (no ray.shutdown()
\* call was due) has returned True after one connect attempt.
C15_Witness ==
    /\ call[1].op = "reconnect"
    /\ call[1].pc = "idle"
    /\ call[1].shutdowns = 0
    /\ call[1].steps = <<"shutdown", "initialize">>
    /\ call[1].inits = 1
    /\ call[1].ret

\* C16: initialize() on a CONNECTED manager returns True without a connect
\* call and leaves connect time, attempt count and snapshot as they were.
C16_InitializeConnectedNoOp ==
    [][\A c \in RayCallers :
          (initialize(c) /\ _connected)
              => /\ call'[c].pc = "idle"
                 /\ call'[c].ret
                 /\ call'[c].inits = 0
                 /\ UNCHANGED <<_connected, _cluster_info, _connection_time,
                                _connection_attempts>>]_vars

\* C16 witness: an initialize() has returned True on a connected manager
\* without a connect call.
C16_Witness ==
    /\ call[1].op = "initialize"
    /\ call[1].pc = "idle"
    /\ call[1].inits = 0
    /\ call[1].ret
    /\ _connected
    /\ _connection_attempts = 2

\* C17: at most one lifecycle transition (initialize, reconnect, shutdown)
\* is in progress at any time, whatever the callers do.
C17_OneLifecycleAtATime ==
    Cardinality({c \in RayThreads : call[c].pc # "idle"}) <= 1

\* C18: a cluster-dependent operation whose is_connected() guard answered
\* False is refused without a call to the coordinator's resource or task
\* interface: the queries return a not-connected result, cancel_task returns
\* False, and the task methods raise RuntimeError.
C18_RefusedWhenDisconnected ==
    \A c \in RayCallers :
        LET cl == call[c] IN
        (cl.op \in GatedOps \cup {"monitor_cluster_health"} /\ ~cl.gate) =>
            /\ ~cl.touched
            /\ cl.op \in QueryOps =>
                   cl.result = [kind |-> "error", error |-> "not_connected"]
            /\ cl.op = "get_cluster_status" =>
                   (~cl.result.connected /\ cl.result.error = "not_connected")
            /\ cl.op = "monitor_cluster_health" =>
                   (~cl.result.healthy /\ cl.result.reason = "not_connected")
            /\ cl.op = "cancel_task" => cl.result.kind = "false"
            /\ cl.op \in RaisingOps => cl.result.kind = "RuntimeError"

\* C18 witness: submit_task was refused with RuntimeError on a manager whose
\* flag is set but whose coordinator connection is gone.
C18_Witness ==
    /\ call[1].op = "submit_task"
    /\ ~call[1].gate
    /\ ~call[1].touched
    /\ call[1].result.kind = "RuntimeError"
    /\ _connected
    /\ ~ray_initialized

\* C19: monitor_cluster_health leaves the connected flag, the connect time,
\* the attempt count and the cached snapshot as they were, whatever the
\* coordinator does.
C19_HealthQueryReadOnly ==
    [][\A c \in RayCallers :
          (\E raises \in BOOLEAN, nodes \in NodeLists, nodes_ok \in BOOLEAN,
              gpus \in GpuMaps, fails \in BOOLEAN :
              monitor_cluster_health(c, raises, nodes, nodes_ok, gpus, fails))
              => UNCHANGED <<_connected, _connection_time,
                             _connection_attempts, _cluster_info>>]_vars

\* C20: on a connected manager monitor_cluster_health reports healthy exactly
\* when the node query answered, at least one node is known, every known
\* node is alive, and the cluster has an accelerator (GPU total > 0).
C20_HealthyNeedsAliveNode ==
    \A c \in RayCallers :
        LET cl == call[c] IN
        (cl.op = "monitor_cluster_health" /\ cl.view # NoResult) =>
            (cl.result.healthy <=>
                /\ cl.view.nodes_ok
                /\ Len(cl.view.nodes) > 0
                /\ \A i \in 1..Len(cl.view.nodes) : cl.view.nodes[i]
                /\ cl.view.gpu_total > 0)

\* C20 as stated: healthy exactly when every known node is alive and the
\* cluster has an accelerator, for every node list, the empty one included.
C20_HealthyIffAllAliveAndGpu ==
    \A c \in RayCallers :
        LET cl == call[c] IN
        (cl.op = "monitor_cluster_health" /\ cl.view # NoResult /\ cl.view.nodes_ok) =>
            (cl.result.healthy <=>
                /\ \A i \in 1..Len(cl.view.nodes) : cl.view.nodes[i]
                /\ cl.view.gpu_total > 0)

\* C20 witness: the coordinator returned an empty node list and a cluster
\* with accelerators, and the report is not healthy.
C20_Witness ==
    /\ call[1].op = "monitor_cluster_health"
    /\ call[1].view # NoResult
    /\ call[1].view.nodes_ok
    /\ call[1].view.nodes = <<>>
    /\ call[1].view.gpu_total > 0
    /\ ~call[1].result.healthy

\* C21: determine_model_status is first-match, most severe first: UNHEALTHY
\* when any of p95 latency, error rate, accelerator memory or accelerator
\* temperature is strictly above its critical limit, else DEGRADED when any is
\* strictly above its warning limit, else HEALTHY; an unavailable accelerator
\* reading counts for nothing.
C21_FirstMatchMostSevere ==
    ("kind" \in DOMAIN reader /\ reader.kind = "classified") =>
        LET m == reader.metrics
            wellformed == /\ m.response_time_p95 \notin {None, NotANumber}
                          /\ m.error_rate # NotARatio
                          /\ m.gpu_memory_usage_percent # NotANumber
                          /\ m.temperature # NotANumber
            Over(x, limit) == x # None /\ x > limit
            critical == \/ m.response_time_p95 > thresholds.response_time_critical
                        \/ m.error_rate.num * 100 > thresholds.error_rate_critical * m.error_rate.den
                        \/ Over(m.gpu_memory_usage_percent, thresholds.gpu_memory_critical)
                        \/ Over(m.temperature, thresholds.gpu_temp_critical)
            warning == \/ m.response_time_p95 > thresholds.response_time_warning
                       \/ m.error_rate.num * 100 > thresholds.error_rate_warning * m.error_rate.den
                       \/ Over(m.gpu_memory_usage_percent, thresholds.gpu_memory_warning)
                       \/ Over(m.temperature, thresholds.gpu_temp_warning)
        IN  wellformed =>
                reader.status = IF critical THEN "unhealthy"
                                ELSE IF warning THEN "degraded"
                                ELSE "healthy"

\* C21 witness: latency above its warning limit only, error rate above its
\* critical limit, no accelerator: classified UNHEALTHY.
C21_Witness ==
    /\ "kind" \in DOMAIN reader
    /\ reader.kind = "classified"
    /\ reader.metrics.response_time_p95 = 6
    /\ reader.metrics.error_rate = Ratio(4, 20)
    /\ reader.metrics.gpu_memory_usage_percent = None
    /\ reader.metrics.temperature = None
    /\ reader.status = "unhealthy"

\* C22: an exception raised while classifying yields the state ERROR.
C22_ClassifyErrorIsError ==
    ( /\ "kind" \in DOMAIN reader
      /\ reader.kind = "classified"
      /\ ClassifyRaises(reader.metrics) )
        => reader.status = "error"

\* C23: for every stored snapshot the alerts computed from it agree with its
\* status: UNHEALTHY iff some alert is critical, DEGRADED iff there are alerts
\* and none is critical, HEALTHY iff there is no alert.
C23_AlertsAgreeWithStatus ==
    \A i \in 1..Len(health_history) :
        LET h == health_history[i]
            alerts == _generate_alerts(h)
            critical == \E j \in 1..Len(alerts) : alerts[j].severity = "critical"
        IN  /\ h.status = "unhealthy" <=> critical
            /\ h.status = "degraded" <=> (alerts # <<>> /\ ~critical)
            /\ h.status = "healthy" <=> alerts = <<>>

\* C23 witness: a stored DEGRADED snapshot with two warning alerts.
C23_Witness ==
    \E i \in 1..Len(health_history) :
        /\ health_history[i].status = "degraded"
        /\ Len(_generate_alerts(health_history[i])) = 2

\* C24: for every snapshot and each of the four monitored metrics,
\* _generate_alerts emits at most one alert: a critical one iff the value is
\* above the critical limit, a warning one iff it is above the warning limit
\* and not above the critical one; nothing else is emitted.
C24_OneAlertPerMetric ==
    \A i \in 1..Len(health_history) :
        LET h == health_history[i]
            alerts == _generate_alerts(h)
            Over(x, limit) == x # None /\ x > limit
            above == [ response_time |->
                         [ warning |-> h.response_time_p95 > thresholds.response_time_warning,
                           critical |-> h.response_time_p95 > thresholds.response_time_critical ],
                       error_rate |->
                         [ warning |-> h.error_rate.num * 100 > thresholds.error_rate_warning * h.error_rate.den,
                           critical |-> h.error_rate.num * 100 > thresholds.error_rate_critical * h.error_rate.den ],
                       gpu_memory |->
                         [ warning |-> Over(h.gpu_memory_usage_percent, thresholds.gpu_memory_warning),
                           critical |-> Over(h.gpu_memory_usage_percent, thresholds.gpu_memory_critical) ],
                       gpu_temperature |->
                         [ warning |-> Over(h.temperature, thresholds.gpu_temp_warning),
                           critical |-> Over(h.temperature, thresholds.gpu_temp_critical) ] ]
        IN  /\ \A j \in 1..Len(alerts) : alerts[j].type \in DOMAIN above
            /\ \A type \in DOMAIN above :
                  LET mine == {j \in 1..Len(alerts) : alerts[j].type = type}
                  IN  /\ Cardinality(mine) <= 1
                      /\ (\E j \in mine : alerts[j].severity = "critical")
                             <=> above[type].critical
                      /\ (\E j \in mine : alerts[j].severity = "warning")
                             <=> (above[type].warning /\ ~above[type].critical)

\* C24 witness: a stored snapshot with a critical accelerator-memory alert
\* and a warning accelerator-temperature alert.
C24_Witness ==
    \E i \in 1..Len(health_history) :
        LET alerts == _generate_alerts(health_history[i])
        IN  /\ \E j \in 1..Len(alerts) :
                  alerts[j].type = "gpu_memory" /\ alerts[j].severity = "critical"
            /\ \E j \in 1..Len(alerts) :
                  alerts[j].type = "gpu_temperature" /\ alerts[j].severity = "warning"

\* C25: in the end-to-end scenario the evaluation after the three samples
\* (error rate 1/3, p95 10) yields UNHEALTHY, with a warning response_time
\* alert and a critical error_rate alert; the evaluation after the fourth
\* sample (error rate 2/4, p95 10) yields UNHEALTHY with exactly one critical
\* alert, of type error_rate.
C25_ScenarioUnhealthyByErrorRate ==
    \A i \in 1..Len(health_history) :
        LET h == health_history[i]
            alerts == _generate_alerts(h)
            criticals == {j \in 1..Len(alerts) : alerts[j].severity = "critical"}
        IN  /\ (h.response_time_avg = Ratio(13, 3) /\ h.error_rate = Ratio(1, 3)) =>
                  /\ h.response_time_p95 = 10
                  /\ h.status = "unhealthy"
                  /\ Len(alerts) = 2
                  /\ alerts[1].type = "response_time" /\ alerts[1].severity = "warning"
                  /\ alerts[2].type = "error_rate" /\ alerts[2].severity = "critical"
            /\ (h.response_time_avg = Ratio(23, 4) /\ h.error_rate = Ratio(2, 4)) =>
                  /\ h.response_time_p95 = 10
                  /\ h.status = "unhealthy"
                  /\ Cardinality(criticals) = 1
                  /\ \A j \in criticals : alerts[j].type = "error_rate"

\* C25 as stated: DEGRADED after the three samples, and after the fourth
\* UNHEALTHY with exactly one critical alert, of type response_time.
C25_ScenarioAsStated ==
    \A i \in 1..Len(health_history) :
        LET h == health_history[i]
            alerts == _generate_alerts(h)
            criticals == {j \in 1..Len(alerts) : alerts[j].severity = "critical"}
        IN  /\ (h.response_time_avg = Ratio(13, 3) /\ h.error_rate = Ratio(1, 3)) =>
                  h.status = "degraded"
            /\ (h.response_time_avg = Ratio(23, 4) /\ h.error_rate = Ratio(2, 4)) =>
                  /\ h.status = "unhealthy"
                  /\ Cardinality(criticals) = 1
                  /\ \A j \in criticals : alerts[j].type = "response_time"

\* C25 witness: both evaluations of the scenario are in the history, in order.
C25_Witness ==
    /\ Len(health_history) = 2
    /\ health_history[1].error_rate = Ratio(1, 3)
    /\ health_history[1].response_time_avg = Ratio(13, 3)
    /\ health_history[2].error_rate = Ratio(2, 4)
    /\ health_history[2].response_time_avg = Ratio(23, 4)

C27_PercentilesOfOneToTen ==
    \A c \in Callers :
        (manual[c].pc = "probing" /\ response_times = [i \in 1..10 |-> i]) =>
            LET st == manual[c].frame.response_stats
            IN  /\ st.avg.num * 2 = 11 * st.avg.den
                /\ st.p50 = 5
                /\ st.p95 = 10
                /\ st.p99 = 10

\* C28: sample eviction is FIFO: after k calls the window holds the latencies
\* of the last min(k, 100) calls, in call order (the k-th call recorded
\* latency k - 1).
C28_WindowIsLastHundred ==
    LET k == request_count
        m == IF k < 100 THEN k ELSE 100
    IN  response_times = [i \in 1..m |-> k - m + i - 1]

\* C28 witness: 103 calls were made and the first retained latency is 3.
C28_Witness ==
    /\ request_count = 103
    /\ Len(response_times) = 100
    /\ response_times[1] = 3
    /\ response_times[100] = 102

\* C29: the history never holds more than 100 snapshots, and an evaluation
\* that stores a snapshot appends it, discarding exactly the oldest one when
\* 100 are held and keeping the order of the rest.
C29_HistoryFifoBounded ==
    /\ [](Len(health_history) <= 100)
    /\ [][health_history' # health_history =>
             LET n == Len(health_history)
             IN  IF n = 100
                 THEN /\ Len(health_history') = 100
                      /\ \A i \in 1..99 : health_history'[i] = health_history[i + 1]
                 ELSE /\ Len(health_history') = n + 1
                      /\ \A i \in 1..n : health_history'[i] = health_history[i]]_vars

\* C29 witness: the history is full, its oldest snapshots discarded, and its
\* newest snapshot is that of an evaluation made when it was already full.
C29_Witness ==
    /\ Len(health_history) = 100
    /\ health_history[1].last_check_time > 1
    /\ health_history[100].last_check_time > 100

\* C30: the history summary reports uptime_percentage = (HEALTHY + DEGRADED
\* snapshots) / total * 100 over the queried snapshots, and all-zero fields
\* for an empty query.
C30_UptimeCountsHealthyAndDegraded ==
    ("kind" \in DOMAIN reader /\ reader.kind = "history") =>
        LET d == reader.data
            sm == reader.summary
            up == Cardinality({i \in 1..Len(d) : d[i].status \in {"healthy", "degraded"}})
        IN  IF d = <<>>
            THEN /\ sm.avg_response_time.num = 0
                 /\ sm.max_response_time.num = 0
                 /\ sm.avg_error_rate.num = 0
                 /\ sm.uptime_percentage.num = 0
                 /\ sm.status_distribution = <<>>
                 /\ \A f \in {"avg_response_time", "max_response_time",
                              "avg_error_rate", "uptime_percentage"} : sm[f].den # 0
            ELSE /\ sm.uptime_percentage.den # 0
                 /\ sm.uptime_percentage.num * Len(d) = up * 100 * sm.uptime_percentage.den

\* C30 witness: a query returned a DEGRADED and an UNHEALTHY snapshot, and
\* the uptime is 50 percent.
C30_Witness ==
    /\ "kind" \in DOMAIN reader
    /\ reader.kind = "history"
    /\ Len(reader.data) = 2
    /\ reader.data[1].status = "degraded"
    /\ reader.data[2].status = "unhealthy"
    /\ reader.summary.uptime_percentage = Ratio(100, 2)

\* C31: whenever initialize() returns success after connecting, the cached
\* cluster snapshot holds the resource totals, the available resources, the
\* node list with its alive counts, the dashboard URL and connected_at.
C31_ConnectedWithSnapshot ==
    \A c \in RayCallers :
        ( /\ call[c].op = "initialize"
          /\ call[c].pc = "idle"
          /\ call[c].ret
          /\ call[c].inits > 0 )
            => /\ _cluster_info.kind = "full"
               /\ _cluster_info.nodes.kind = "nodes"

\* C34: whenever initialize() returns True the coordinator connection is
\* live at that moment: is_connected() called next would return True.
C34_InitializeTrueMeansLive ==
    [][\A c \in RayCallers :
          ( /\ call'[c] # call[c]
            /\ call'[c].op = "initialize"
            /\ call'[c].pc = "idle"
            /\ call'[c].ret )
              => (_connected' /\ ray_initialized')]_vars

\* C35: whenever reconnect() returns True, at least one coordinator connect
\* call was made during that reconnect.
C35_ReconnectTrueMeansConnectCall ==
    \A c \in RayCallers :
        ( /\ call[c].op = "reconnect"
          /\ call[c].pc = "idle"
          /\ call[c].ret )
            => call[c].inits >= 1

\* C36: after the reload operation completes successfully, the engine actor
\* held by the vLLM service is one of the coordinator connection in use, not
\* a handle created before the connection was torn down.
C36_ReloadUsesNewActor ==
    [][\A c \in RayCallers :
          ( /\ call'[c] # call[c]
            /\ call'[c].op = "reload_service"
            /\ call'[c].result = [kind |-> "reloaded"] )
              => engine_actor' = "live"]_vars

\* C37: within one initialize() the retry delay is taken exactly between
\* consecutive failed tries: a failed try that is not the last is followed by
\* one delay and then the next connect call; no delay follows the last failed
\* try or a successful one (three failures incur exactly two delays).
C37_DelayBetweenFailedAttempts ==
    /\ [](\A c \in RayCallers :
            LET cl == call[c]
            IN  cl.op \in {"initialize", "reconnect"} =>
                  /\ cl.pc = "connect" =>
                        (cl.inits = cl.attempt - 1 /\ cl.sleeps = cl.attempt - 1)
                  /\ cl.pc = "delay" =>
                        /\ cl.attempt < 3
                        /\ cl.inits = cl.attempt
                        /\ cl.sleeps = cl.attempt - 1
                  /\ (cl.pc = "idle" /\ cl.inits > 0 /\ cl.ret) =>
                        cl.sleeps = cl.inits - 1
                  /\ (cl.pc = "idle" /\ cl.inits > 0 /\ ~cl.ret) =>
                        (cl.inits = 3 /\ cl.sleeps = 2))
    /\ [][\A c \in RayCallers :
            /\ (call[c].pc = "delay" /\ call'[c] # call[c]) =>
                  /\ call'[c].pc = "connect"
                  /\ call'[c].sleeps = call[c].sleeps + 1
                  /\ call'[c].attempt = call[c].attempt + 1
            /\ (call[c].pc = "connect" /\ call'[c] # call[c]) =>
                  /\ call'[c].sleeps = call[c].sleeps
                  /\ call'[c].inits = call[c].inits + 1
                  /\ \/ call'[c].pc = "idle"
                     \/ call'[c].pc = "delay" /\ call[c].attempt < 3]_vars

\* C37 witness: initialize() has failed three times and slept twice.
C37_Witness ==
    /\ call[1].op = "initialize"
    /\ call[1].pc = "idle"
    /\ ~call[1].ret
    /\ call[1].inits = 3
    /\ call[1].raised = 3
    /\ call[1].sleeps = 2

\* C38: the stored history is in chronological order (timestamps
\* non-decreasing from oldest to newest), also when a manual check overlaps a
\* scheduled tick suspended in its probe.
C38_HistoryChronological ==
    \A i \in 1..(Len(health_history) - 1) :
        health_history[i].last_check_time <= health_history[i + 1].last_check_time

\* C38 witness: two evaluations overlapped: the snapshot stored last was
\* computed from the window as it was before the request that the snapshot
\* stored first already counts.
C38_Witness ==
    /\ Len(health_history) = 2
    /\ health_history[1].response_time_p95 = 12
    /\ health_history[2].response_time_p95 = 0
    /\ health_history[1].last_check_time < health_history[2].last_check_time

\* C32: get_all_tasks_status() returns without raising for every mix of
\* running, completed and failed tracked tasks, with total_tasks the number
\* of tracked tasks and one status entry per tracked task.
C32_AllTasksStatusReturns ==
    ("kind" \in DOMAIN tasks_reader /\ tasks_reader.kind = "all") =>
        /\ ~tasks_reader.raised
        /\ tasks_reader.total_tasks = Len(tasks_reader.tracked)
        /\ Len(tasks_reader.tasks) = Len(tasks_reader.tracked)

\* C33: after cleanup_completed_tasks() returns (on a connected manager),
\* active_tasks holds only tasks that are still running: every finished task,
\* its result retrieved or not, has been removed.
C33_CleanupLeavesRunningOnly ==
    [][( /\ tasks_reader'.kind = "cleanup"
         /\ tasks_reader'.gate
         /\ ray_tasks' = ray_tasks ) =>
          \A i \in 1..Len(active_tasks') :
              ray_tasks'[active_tasks'[i].task_ref] = "running"]_vars

\* C39: every submit_task that returns yields a task id distinct from all ids
\* returned before, and each returned id has its own entry in active_tasks,
\* also when several threads call submit_task at the same time.
C39_SubmittedIdsDistinct ==
    /\ \A i, j \in 1..Len(returned) :
          i # j => returned[i].task_id # returned[j].task_id
    /\ \A i \in 1..Len(returned) :
          \E k \in 1..Len(active_tasks) :
              /\ active_tasks[k].task_id = returned[i].task_id
              /\ active_tasks[k].task_ref = returned[i].task_ref

\* C40: whenever monitor_cluster_health on a connected manager reports
\* healthy = false, the result carries a reason or a non-empty warnings list.
C40_UnhealthyNamesCause ==
    \A c \in RayCallers :
        ( /\ call[c].op = "monitor_cluster_health"
          /\ call[c].gate
          /\ ~call[c].result.healthy )
            => \/ "reason" \in DOMAIN call[c].result
               \/ call[c].result.warnings # {}

====
